---- MODULE Spec2Model ----
(***************************************************************************)
(* Model of the storefront's order workflow: the POST /api/orders handler  *)
(* (payload validation, existence and stock checks, the transactional      *)
(* write) running as several concurrent requests against one store.        *)
(***************************************************************************)
EXTENDS Integers, Sequences, FiniteSets, TLC

(* ------------------------------ bounds -------------------------------- *)

\* number of concurrent POST /orders requests
NumReqs == 2
\* largest number of items in a well-formed payload
MaxItems == 2
\* largest quantity of an item in a well-formed payload
MaxQty == 2
\* largest initial stock of the tracked product
MaxStock == 2

Reqs == 1..NumReqs

(* --------------------------- JavaScript values ------------------------ *)
\* A JavaScript value is a record tagged with t; numbers are "int" (the
\* integer v), "frac" (v + 1/2), "nan", "inf" (v = 1: +Infinity, v = -1:
\* -Infinity); typeof maps all four to "number".

Undefined == [t |-> "undefined", v |-> 0]
Null == [t |-> "null", v |-> 0]
Num(n) == [t |-> "int", v |-> n]
Frac(n) == [t |-> "frac", v |-> n]
NaN == [t |-> "nan", v |-> 0]
Infinity == [t |-> "inf", v |-> 1]
Str(s) == [t |-> "string", v |-> s]
Arr(s) == [t |-> "array", v |-> s]
Bool(b) == [t |-> "boolean", v |-> b]

\* typeof x
TypeOf(x) ==
  CASE x.t \in {"int", "frac", "nan", "inf"} -> "number"
    [] x.t \in {"object", "array", "null"} -> "object"
    [] OTHER -> x.t

\* Number.isFinite(x), for x of type number
IsFinite(x) == x.t \in {"int", "frac"}

\* !x
Falsy(x) ==
  \/ x.t \in {"undefined", "null", "nan"}
  \/ x.t = "string" /\ x.v = ""
  \/ x.t = "int" /\ x.v = 0
  \/ x.t = "boolean" /\ x.v = FALSE

\* x <= 0, for x of type number (false for NaN)
LeqZero(x) ==
  \/ x.t = "int" /\ x.v <= 0
  \/ x.t = "frac" /\ x.v < 0
  \/ x.t = "inf" /\ x.v < 0

\* x < 0, for x of type number (false for NaN)
LtZero(x) ==
  \/ x.t \in {"int", "frac"} /\ x.v < 0
  \/ x.t = "inf" /\ x.v < 0

\* a test that lets fractional numbers pass as integers
FloorDiffersOnlyNaN(x) == x.t = "nan"

\* Math.floor(x) !== x, for x of type number
FloorDiffers(x) == x.t \in {"frac", "nan"}

(* ------------------------------ strings ------------------------------- *)

LowerChar(c) ==
  CASE c = "A" -> "a" [] c = "B" -> "b" [] c = "C" -> "c" [] c = "D" -> "d"
    [] c = "E" -> "e" [] c = "F" -> "f" [] c = "G" -> "g" [] c = "H" -> "h"
    [] c = "I" -> "i" [] c = "J" -> "j" [] c = "K" -> "k" [] c = "L" -> "l"
    [] c = "M" -> "m" [] c = "N" -> "n" [] c = "O" -> "o" [] c = "P" -> "p"
    [] c = "Q" -> "q" [] c = "R" -> "r" [] c = "S" -> "s" [] c = "T" -> "t"
    [] c = "U" -> "u" [] c = "V" -> "v" [] c = "W" -> "w" [] c = "X" -> "x"
    [] c = "Y" -> "y" [] c = "Z" -> "z" [] OTHER -> c

RECURSIVE ToLowerCase(_)
\* s.toLowerCase()
ToLowerCase(s) ==
  IF Len(s) = 0 THEN ""
  ELSE LowerChar(SubSeq(s, 1, 1)) \o ToLowerCase(SubSeq(s, 2, Len(s)))

\* s.includes(pat)
Includes(s, pat) ==
  \E i \in 1..(Len(s) - Len(pat) + 1) : SubSeq(s, i, i + Len(pat) - 1) = pat

(* ------------------------- validateOrderPayload ----------------------- *)

Ok(val) == [ok |-> TRUE, value |-> val, message |-> ""]
Throw(msg) == [ok |-> FALSE, value |-> <<>>, message |-> msg]

\* the callback of p.items.map: the item at (0-based) index idx
ValidateItem(it, idx) ==
  IF TypeOf(it) # "object" \/ it.t = "null"
  THEN Throw("Item at index " \o ToString(idx) \o " must be an object.")
  ELSE IF it.t # "object"
  THEN Throw("Missing or invalid 'productId' for item at index " \o ToString(idx) \o ".")
  ELSE IF Falsy(it.productId) \/ TypeOf(it.productId) # "string"
  THEN Throw("Missing or invalid 'productId' for item at index " \o ToString(idx) \o ".")
  ELSE IF \/ TypeOf(it.quantity) # "number"
          \/ ~IsFinite(it.quantity)
          \/ LeqZero(it.quantity)
          \/ FloorDiffers(it.quantity)
  THEN Throw("Missing or invalid 'quantity' for item at index " \o ToString(idx)
             \o ". Must be a positive integer.")
  ELSE IF it.price.t # "undefined"
          /\ ~(TypeOf(it.price) = "number" /\ IsFinite(it.price))
  THEN Throw("Invalid 'price' for item at index " \o ToString(idx) \o ".")
  ELSE Ok([productId |-> it.productId.v, quantity |-> it.quantity.v, price |-> it.price])

\* a map that reports its last throwing item
ValidateItemsLast(items) ==
  LET res == [i \in 1..Len(items) |-> ValidateItem(items[i], i - 1)]
      bad == {i \in 1..Len(items) : ~res[i].ok}
  IN IF bad # {}
     THEN res[CHOOSE i \in bad : \A j \in bad : i >= j]
     ELSE Ok([i \in 1..Len(items) |-> res[i].value])

\* p.items.map(...): the first throwing item ends the map
ValidateItems(items) ==
  LET res == [i \in 1..Len(items) |-> ValidateItem(items[i], i - 1)]
      bad == {i \in 1..Len(items) : ~res[i].ok}
  IN IF bad # {}
     THEN res[CHOOSE i \in bad : \A j \in bad : i <= j]
     ELSE Ok([i \in 1..Len(items) |-> res[i].value])

validateOrderPayload(payload) ==
  IF TypeOf(payload) # "object" \/ payload.t = "null"
  THEN Throw("Payload must be a JSON object.")
  ELSE IF payload.t # "object"
  THEN Throw("Missing or invalid 'userId'.")
  ELSE IF Falsy(payload.userId) \/ TypeOf(payload.userId) # "string"
  THEN Throw("Missing or invalid 'userId'.")
  ELSE IF payload.items.t # "array" \/ Len(payload.items.v) = 0
  THEN Throw("'items' must be a non-empty array.")
  ELSE LET its == ValidateItems(payload.items.v)
       IN IF ~its.ok THEN its
          ELSE IF \/ TypeOf(payload.total) # "number"
                  \/ ~IsFinite(payload.total)
                  \/ LtZero(payload.total)
          THEN Throw("Missing or invalid 'total'. Must be a non-negative number.")
          ELSE Ok([userId |-> payload.userId.v, items |-> its.value,
                   total |-> payload.total])

(* ------------------------------ the store ----------------------------- *)

\* rows of the user table
UserRows ==
  [u \in {"u1"} |-> [id |-> u, name |-> "Ann", email |-> "ann@example.com",
                     password |-> "5e884898da28"]]

\* the product table with the tracked product's stock at n: p1 tracks its
\* stock, p2 does not (stock null) and has no catalog price
ProductRows(n) ==
  [p \in {"p1", "p2"} |->
     IF p = "p1" THEN [id |-> p, name |-> "Widget", price |-> Num(20), stock |-> Num(n)]
     ELSE [id |-> p, name |-> "Gadget", price |-> Null, stock |-> Null]]

\* texts of errors the store client raises
StoreMessages ==
  { "Transaction already closed",
    "Invalid prisma.order.create() invocation: Foreign key constraint failed" }

(* ------------------------------ requests ------------------------------ *)

Obj(userId, items, total) ==
  [t |-> "object", userId |-> userId, items |-> items, total |-> total]
Item(productId, quantity, price) ==
  [t |-> "object", productId |-> productId, quantity |-> quantity, price |-> price]

\* sequences over S of length 1..n
SeqsUpTo(S, n) == UNION {[1..k -> S] : k \in 1..n}

\* well-formed bodies: a user id, items without explicit price, a total
WellFormedBodies ==
  { Obj(Str(u), Arr(its), Num(40)) :
      u \in {"u1", "u9"},
      its \in SeqsUpTo({Item(Str(p), Num(q), Undefined) :
                          p \in {"p1", "p2", "p9"}, q \in 1..MaxQty}, MaxItems) }

GoodItem == Item(Str("p1"), Num(1), Undefined)

\* bodies that break one or several rules of the validator
BrokenBodies ==
  { Null, Str("order"), Num(7), Arr(<<>>), Bool(TRUE) }
  \cup { Obj(u, Arr(<<GoodItem>>), Num(40)) : u \in {Undefined, Str(""), Num(1), Null} }
  \cup { Obj(Str("u1"), its, Num(40)) : its \in {Undefined, Arr(<<>>), Str("p1"), Null} }
  \cup { Obj(Str("u1"), Arr(<<GoodItem, it>>), Num(40)) :
           it \in {Null, Num(3), Str("p1"), Arr(<<>>)} }
  \cup { Obj(Str("u1"), Arr(<<Item(p, Num(1), Undefined)>>), Num(40)) :
           p \in {Undefined, Str(""), Num(1)} }
  \cup { Obj(Str("u1"), Arr(<<GoodItem, Item(Str("p1"), q, Undefined)>>), Num(40)) :
           q \in {Undefined, Num(0), Num(-1), Frac(1), NaN, Infinity, Str("2")} }
  \cup { Obj(Str("u1"), Arr(<<Item(Str("p1"), Num(1), pr)>>), Num(40)) :
           pr \in {Null, Str("5"), NaN, Infinity} }
  \cup { Obj(Str("u1"), Arr(<<GoodItem>>), tot) :
           tot \in {Undefined, Num(-1), Frac(-1), NaN, Infinity, Str("40")} }
  \cup { Obj(Undefined, Arr(<<Item(Undefined, Num(0), Str("5"))>>), Undefined),
         Obj(Str("u1"), Arr(<<Null, Item(Undefined, Num(0), Undefined)>>), Undefined) }

\* a body that is not JSON: request.json() throws a SyntaxError
Malformed == [t |-> "malformed", v |-> 0]

\* every body of the model
Bodies == WellFormedBodies \cup BrokenBodies \cup {Malformed}

\* the bodies concurrent clients send: the well-formed ones, and one body the
\* validator rejects for each status the catch block answers
ClientBodies ==
  WellFormedBodies
  \cup { Null, Obj(Str("u1"), Arr(<<Item(Str("p1"), Num(0), Undefined)>>), Num(40)) }

\* await request.json()
RequestJson(body) ==
  IF body.t = "malformed" THEN Throw("Unexpected end of JSON input") ELSE Ok(body)

VARIABLES
  products,    \* committed product rows, by id
  products0,   \* the product rows at start
  orders,      \* committed order rows
  orderItems,  \* committed order-item rows
  pc,          \* per request: where its handler is suspended
  payload,     \* per request: the parsed request body
  idx,         \* per request: index of the item the transaction is at
  snap,        \* per request: productsById, the products read before the checks
  txOrders,    \* per request: order rows written, not yet committed
  txItems,     \* per request: order-item rows written, not yet committed
  txStock,     \* per request: product stock written, not yet committed
  fullOrder,   \* per request: the order re-read inside the transaction
  failedAt,    \* per request: the step at which the store raised an error
  resp,        \* per request: the HTTP response
  users,       \* memoryStore: the user records, by Map key
  uuids,       \* the number of ids randomUUID has produced
  upc,         \* per /users request: where its handler is suspended
  uinput,      \* per /users request: its query parameters and parsed body
  existing,    \* per /users request: the record its lookup returned
  uresp,       \* per /users request: the HTTP response
  ucount,      \* the number of /users requests received so far
  call,        \* the request or function call under consideration
  result,      \* what it returned
  cpc,         \* request() of the HTTP client: where it is suspended
  copts,       \* request(): the options it was called with
  timer,       \* request(): the timer setTimeout returned
  elapsed,     \* request(): whether `timeout` milliseconds have passed
  aborted,     \* request(): the abort signals that have fired
  cres,        \* request(): the response fetch resolved with
  outcome,     \* request(): how the returned promise settled
  file,        \* products.json: the stored product list
  fpc,         \* per POST /products on the file store: where it is suspended
  fbody,       \* per POST /products on the file store: the product it adds
  fread,       \* per POST /products on the file store: the list it read
  fresp,       \* per POST /products on the file store: the HTTP response
  cart,        \* Cart: items, the cart items state
  checkout,    \* Cart: handleCheckout, where it is suspended and what it sent
  cartMessage  \* Cart: message, the notice shown above the cart

ordervars == <<products, products0, orders, orderItems, pc, payload, idx, snap,
               txOrders, txItems, txStock, fullOrder, failedAt, resp>>
uservars == <<users, uuids, upc, uinput, existing, uresp, ucount>>
callvars == <<call, result>>
clientvars == <<cpc, copts, timer, elapsed, aborted, cres, outcome>>
filevars == <<file, fpc, fbody, fread, fresp>>
cartvars == <<cart, checkout, cartMessage>>
vars == <<ordervars, uservars, callvars, clientvars, filevars, cartvars>>

NoResp == [status |-> 0, body |-> [success |-> FALSE, error |-> ""]]
NoOrder == [id |-> 0]
NoWrites == [p \in {} |-> Null]

\* NextResponse.json({success: false, error}, {status})
ErrorResponse(status, error) ==
  [status |-> status, body |-> [success |-> FALSE, error |-> error]]

\* NextResponse.json({success: true, data}, {status: 201})
CreatedResponse(data) ==
  [status |-> 201, body |-> [success |-> TRUE, data |-> data]]

\* the catch block of POST: the status is chosen from the message text
CatchResponse(message) ==
  LET lower == ToLowerCase(message)
  IN IF \/ message # "" /\ Includes(lower, "missing")
        \/ Includes(lower, "invalid")
     THEN ErrorResponse(400, message)
     ELSE ErrorResponse(500, message)

\* what the catch block answers to the errors the store client raises
StoreErrorResponses == {CatchResponse(message) : message \in StoreMessages}

\* the validated request of r
Data(r) == validateOrderPayload(payload[r]).value

\* concurrent requests to /users, and how many requests they make in all
NumUserReqs == 2
MaxUserCalls == 3
UReqs == 1..NumUserReqs

\* memoryStore starts as an empty Map
NoUsers == <<>>
NoInput == [n |-> 0, op |-> "", id |-> Undefined, email |-> Undefined, body |-> Undefined]
NoUserResp == [status |-> 0, body |-> Null]

InitUsers ==
  /\ users = NoUsers
  /\ uuids = 0
  /\ upc = [u \in UReqs |-> "idle"]
  /\ uinput = [u \in UReqs |-> NoInput]
  /\ existing = [u \in UReqs |-> Null]
  /\ uresp = [u \in UReqs |-> NoUserResp]
  /\ ucount = 0

NoCall == [fn |-> ""]
NoResult == [status |-> 0]

InitCall == call = NoCall /\ result = NoResult

InitOrders ==
  /\ \E n \in 1..MaxStock : products = ProductRows(n)
  /\ products0 = products
  /\ orders = {}
  /\ orderItems = {}
  /\ pc = [r \in Reqs |-> "idle"]
  /\ payload = [r \in Reqs |-> Undefined]
  /\ idx = [r \in Reqs |-> 0]
  /\ snap = [r \in Reqs |-> NoWrites]
  /\ txOrders = [r \in Reqs |-> {}]
  /\ txItems = [r \in Reqs |-> <<>>]
  /\ txStock = [r \in Reqs |-> NoWrites]
  /\ fullOrder = [r \in Reqs |-> NoOrder]
  /\ failedAt = [r \in Reqs |-> ""]
  /\ resp = [r \in Reqs |-> NoResp]

\* the HTTP client has not been called
NoOutcome == [kind |-> "pending"]
NoRes == [status |-> 0]
InitClient ==
  /\ cpc = "idle"
  /\ copts = [signal |-> "none"]
  /\ timer = "none"
  /\ elapsed = FALSE
  /\ aborted = {}
  /\ cres = NoRes
  /\ outcome = NoOutcome

\* concurrent POST /products requests on the file store
NumCreators == 2
Creators == 1..NumCreators

\* no request has come in, and the data file holds an empty list
\* data/products.json before anything created it
NoFile == [exists |-> FALSE, products |-> <<>>]

InitFile ==
  /\ file = NoFile
  /\ fpc = [k \in Creators |-> "idle"]
  /\ fbody = [k \in Creators |-> Null]
  /\ fread = [k \in Creators |-> <<>>]
  /\ fresp = [k \in Creators |-> NoResult]

\* Cart mounted with nothing in localStorage and no initialItems
NoCheckout == [state |-> "idle", r |-> 0, body |-> Undefined]
NoMessage == [type |-> "none", text |-> ""]

InitCart ==
  /\ cart = <<>>
  /\ checkout = NoCheckout
  /\ cartMessage = NoMessage

Init == InitOrders /\ InitUsers /\ InitCall /\ InitClient /\ InitFile /\ InitCart

\* the handler of r returns response: its locals are gone
Respond(r, response) ==
  /\ resp' = [resp EXCEPT ![r] = response]
  /\ pc' = [pc EXCEPT ![r] = "done"]
  /\ payload' = [payload EXCEPT ![r] = Undefined]
  /\ idx' = [idx EXCEPT ![r] = 0]
  /\ snap' = [snap EXCEPT ![r] = NoWrites]
  /\ fullOrder' = [fullOrder EXCEPT ![r] = NoOrder]

\* POST up to its first store call, for a body among S: parse the body and
\* validate it.  Requests are numbered in the order they arrive.
ReceiveFrom(r, S) ==
  /\ pc[r] = "idle"
  /\ \A q \in Reqs : q < r => pc[q] # "idle"
  /\ \E body \in S :
       LET parsed == RequestJson(body)
           data == IF parsed.ok THEN validateOrderPayload(parsed.value) ELSE parsed
       IN IF data.ok
          THEN /\ payload' = [payload EXCEPT ![r] = body]
               /\ pc' = [pc EXCEPT ![r] = "findUser"]
               /\ UNCHANGED <<resp, idx, snap, fullOrder>>
          ELSE Respond(r, CatchResponse(data.message))
  /\ UNCHANGED <<uservars, callvars, clientvars, filevars, cartvars>>
  /\ UNCHANGED <<products, products0, orders, orderItems, txOrders, txItems,
                 txStock, failedAt>>

\* POST up to its first store call, for a body concurrent clients send
Receive(r) == ReceiveFrom(r, ClientBodies)

\* prisma.user.findUnique and the user check
FindUser(r) ==
  /\ pc[r] = "findUser"
  /\ IF Data(r).userId \notin DOMAIN UserRows
     THEN Respond(r, ErrorResponse(404, "User not found."))
     ELSE /\ pc' = [pc EXCEPT ![r] = "findProducts"]
          /\ UNCHANGED <<resp, payload, idx, snap, fullOrder>>
  /\ UNCHANGED <<uservars, callvars, clientvars, filevars, cartvars>>
  /\ UNCHANGED <<products, products0, orders, orderItems, txOrders,
                 txItems, txStock, failedAt>>

\* the stock check with <= for <: a quantity equal to the stock is refused
CheckItemOffByOne(item, productsById) ==
  IF item.productId \notin DOMAIN productsById
  THEN [ok |-> FALSE,
        response |-> ErrorResponse(404, "Product not found: " \o item.productId)]
  ELSE LET prod == productsById[item.productId]
       IN IF TypeOf(prod.stock) = "number" /\ prod.stock.v <= item.quantity
          THEN [ok |-> FALSE,
                response |-> ErrorResponse(400,
                  "Insufficient stock for product " \o prod.name \o " (" \o prod.id
                  \o "). Requested " \o ToString(item.quantity) \o ", available "
                  \o ToString(prod.stock.v) \o ".")]
          ELSE [ok |-> TRUE, response |-> NoResp]

\* the for loop before the transaction, at one item: the product must be
\* among those read, and its stock, when a number, must cover the quantity
CheckItem(item, productsById) ==
  IF item.productId \notin DOMAIN productsById
  THEN [ok |-> FALSE,
        response |-> ErrorResponse(404, "Product not found: " \o item.productId)]
  ELSE LET prod == productsById[item.productId]
       IN IF TypeOf(prod.stock) = "number" /\ prod.stock.v < item.quantity
          THEN [ok |-> FALSE,
                response |-> ErrorResponse(400,
                  "Insufficient stock for product " \o prod.name \o " (" \o prod.id
                  \o "). Requested " \o ToString(item.quantity) \o ", available "
                  \o ToString(prod.stock.v) \o ".")]
          ELSE [ok |-> TRUE, response |-> NoResp]

\* the for loop before the transaction: the first failing item answers
CheckItems(items, productsById) ==
  LET res == [i \in 1..Len(items) |-> CheckItem(items[i], productsById)]
      bad == {i \in 1..Len(items) : ~res[i].ok}
  IN IF bad # {} THEN res[CHOOSE i \in bad : \A j \in bad : i <= j]
     ELSE [ok |-> TRUE, response |-> NoResp]

\* prisma.product.findMany({where: {id: {in: productIds}}})
FindMany(productIds) ==
  [p \in productIds \cap DOMAIN products |-> products[p]]

\* the checks reserving stock as they go: the items before the failing one
\* have their stock taken although the request is refused
FindProductsReserving(r) ==
  /\ pc[r] = "findProducts"
  /\ LET items == Data(r).items
         productIds == {items[i].productId : i \in 1..Len(items)}
         productsById == FindMany(productIds)
         checked == CheckItems(items, productsById)
     IN IF checked.ok
        THEN /\ snap' = [snap EXCEPT ![r] = productsById]
             /\ pc' = [pc EXCEPT ![r] = "txOrder"]
             /\ UNCHANGED <<products, resp, payload, idx, fullOrder>>
        ELSE /\ Respond(r, checked.response)
             /\ products' = [p \in DOMAIN products |->
                  IF /\ p = items[1].productId
                     /\ CheckItem(items[1], productsById).ok
                     /\ TypeOf(products[p].stock) = "number"
                  THEN [products[p] EXCEPT !.stock = Num(@.v - items[1].quantity)]
                  ELSE products[p]]
  /\ UNCHANGED <<uservars, callvars, clientvars, filevars, cartvars>>
  /\ UNCHANGED <<products0, orders, orderItems, txOrders,
                 txItems, txStock, failedAt>>

\* prisma.product.findMany and the checks of every item
FindProducts(r) ==
  /\ pc[r] = "findProducts"
  /\ LET items == Data(r).items
         productIds == {items[i].productId : i \in 1..Len(items)}
         productsById == FindMany(productIds)
         checked == CheckItems(items, productsById)
     IN IF checked.ok
        THEN /\ snap' = [snap EXCEPT ![r] = productsById]
             /\ pc' = [pc EXCEPT ![r] = "txOrder"]
             /\ UNCHANGED <<resp, payload, idx, fullOrder>>
        ELSE Respond(r, checked.response)
  /\ UNCHANGED <<uservars, callvars, clientvars, filevars, cartvars>>
  /\ UNCHANGED <<products, products0, orders, orderItems, txOrders,
                 txItems, txStock, failedAt>>

(* --------------------------- the transaction -------------------------- *)

\* the product row p as the transaction of r sees it
TxProduct(r, p) ==
  IF p \in DOMAIN txStock[r] THEN [products[p] EXCEPT !.stock = txStock[r][p]]
  ELSE products[p]

\* x ?? y
Nullish(x, y) == IF x.t \in {"undefined", "null"} THEN y ELSE x

\* an order row created as already paid
NewOrderRowPaid(r, data) ==
  [id |-> r, userId |-> data.userId, total |-> data.total, status |-> "paid"]

\* data: {userId: data.userId, total: data.total, status: "pending"}
NewOrderRow(r, data) ==
  [id |-> r, userId |-> data.userId, total |-> data.total, status |-> "pending"]

\* tx.order.create
TxCreateOrder(r) ==
  /\ pc[r] = "txOrder"
  /\ txOrders' = [txOrders EXCEPT ![r] = {NewOrderRow(r, Data(r))}]
  /\ idx' = [idx EXCEPT ![r] = 1]
  /\ pc' = [pc EXCEPT ![r] = "txItem"]
  /\ UNCHANGED <<uservars, callvars, clientvars, filevars, cartvars>>
  /\ UNCHANGED <<products, products0, orders, orderItems, payload, snap, txItems,
                 txStock, fullOrder, failedAt, resp>>

\* the end of one turn of the item loop
NextItem(r) ==
  IF idx[r] < Len(Data(r).items)
  THEN /\ idx' = [idx EXCEPT ![r] = idx[r] + 1]
       /\ pc' = [pc EXCEPT ![r] = "txItem"]
  ELSE /\ idx' = idx
       /\ pc' = [pc EXCEPT ![r] = "txRead"]

\* the catalog price wins over the price the request gives
CatalogFirstPrice(item, prod) == Nullish(Nullish(prod.price, item.price), Num(0))

\* price: item.price ?? prod.price ?? 0 (prod is the row read before the
\* transaction)
SnapshotPrice(item, prod) == Nullish(Nullish(item.price, prod.price), Num(0))

\* tx.orderItem.create for the item the loop is at
TxCreateItem(r) ==
  /\ pc[r] = "txItem"
  /\ LET item == Data(r).items[idx[r]]
         prod == snap[r][item.productId]
     IN /\ txItems' = [txItems EXCEPT ![r] = Append(@,
             [orderId |-> r, idx |-> idx[r], productId |-> item.productId,
              quantity |-> item.quantity,
              price |-> SnapshotPrice(item, prod)])]
        /\ IF TypeOf(prod.stock) = "number"
           THEN /\ pc' = [pc EXCEPT ![r] = "txStock"]
                /\ idx' = idx
           ELSE NextItem(r)
  /\ UNCHANGED <<uservars, callvars, clientvars, filevars, cartvars>>
  /\ UNCHANGED <<products, products0, orders, orderItems, payload, snap, txOrders,
                 txStock, fullOrder, failedAt, resp>>

\* an update that takes one unit whatever the quantity
DecrementByOne(current, prod, quantity) == Num(current.v - 1)

\* an update that reads the row before writing it: stock = prod.stock - quantity
DecrementFromSnapshot(current, prod, quantity) == Num(prod.stock.v - quantity)

\* data: {stock: {decrement: quantity}}: the store subtracts from the row's
\* current value (prod is the row read before the transaction)
Decrement(current, prod, quantity) == Num(current.v - quantity)

\* tx.product.update for the item the loop is at; the row stays locked by
\* this transaction until it ends
TxDecrement(r) ==
  /\ pc[r] = "txStock"
  /\ LET item == Data(r).items[idx[r]]
         prod == snap[r][item.productId]
         p == prod.id
     IN /\ \A q \in Reqs \ {r} : p \notin DOMAIN txStock[q]
        /\ txStock' = [txStock EXCEPT ![r] =
             [x \in DOMAIN @ \cup {p} |->
                IF x = p THEN Decrement(TxProduct(r, p).stock, prod, item.quantity)
                ELSE @[x]]]
  /\ NextItem(r)
  /\ UNCHANGED <<uservars, callvars, clientvars, filevars, cartvars>>
  /\ UNCHANGED <<products, products0, orders, orderItems, payload, snap, txOrders,
                 txItems, fullOrder, failedAt, resp>>

\* the user projection select: {id, name, email}
SelectUser(u) == [id |-> u.id, name |-> u.name, email |-> u.email]

\* tx.order.findUnique with items, their products and the user
TxFindOrder(r) ==
  /\ pc[r] = "txRead"
  /\ LET order == CHOOSE o \in txOrders[r] : TRUE
     IN fullOrder' = [fullOrder EXCEPT ![r] =
          [id |-> order.id, userId |-> order.userId, total |-> order.total,
           status |-> order.status,
           items |-> [i \in 1..Len(txItems[r]) |->
                        [productId |-> txItems[r][i].productId,
                         quantity |-> txItems[r][i].quantity,
                         price |-> txItems[r][i].price,
                         product |-> TxProduct(r, txItems[r][i].productId)]],
           user |-> SelectUser(UserRows[order.userId])]]
  /\ pc' = [pc EXCEPT ![r] = "txCommit"]
  /\ UNCHANGED <<uservars, callvars, clientvars, filevars, cartvars>>
  /\ UNCHANGED <<products, products0, orders, orderItems, payload, idx, snap,
                 txOrders, txItems, txStock, failedAt, resp>>

\* the transaction of r ends: its uncommitted rows and its locks are gone
EndTx(r) ==
  /\ txOrders' = [txOrders EXCEPT ![r] = {}]
  /\ txItems' = [txItems EXCEPT ![r] = <<>>]
  /\ txStock' = [txStock EXCEPT ![r] = NoWrites]

\* the writes of r become the committed rows
ApplyWrites(r) ==
  /\ orders' = orders \cup txOrders[r]
  /\ orderItems' = orderItems \cup {txItems[r][i] : i \in 1..Len(txItems[r])}
  /\ products' = [p \in DOMAIN products |-> TxProduct(r, p)]

\* writes made outside the transaction survive its failure
RollbackKeepsWrites(r) == ApplyWrites(r) /\ EndTx(r)

\* $transaction rejects: every write of the callback is undone
Rollback(r) == UNCHANGED <<products, orders, orderItems>> /\ EndTx(r)

\* the callback returned: $transaction commits and POST answers 201
TxCommit(r) ==
  /\ pc[r] = "txCommit"
  /\ ApplyWrites(r)
  /\ EndTx(r)
  /\ Respond(r, CreatedResponse(fullOrder[r]))
  /\ UNCHANGED <<uservars, callvars, clientvars, filevars, cartvars>>
  /\ UNCHANGED <<products0, failedAt>>

AwaitingStore == {"findUser", "findProducts", "txOrder", "txItem", "txStock",
                  "txRead", "txCommit"}

\* a store call of r rejects: the transaction, if open, is rolled back and
\* the catch block answers
StoreThrow(r) ==
  /\ pc[r] \in AwaitingStore
  /\ \E response \in StoreErrorResponses : Respond(r, response)
  /\ Rollback(r)
  /\ failedAt' = [failedAt EXCEPT ![r] = pc[r]]
  /\ UNCHANGED <<uservars, callvars, clientvars, filevars, cartvars>>
  /\ UNCHANGED products0

Next ==
  \E r \in Reqs :
    \/ Receive(r)
    \/ FindUser(r)
    \/ FindProducts(r)
    \/ TxCreateOrder(r)
    \/ TxCreateItem(r)
    \/ TxDecrement(r)
    \/ TxFindOrder(r)
    \/ TxCommit(r)
    \/ StoreThrow(r)

Spec == Init /\ [][Next]_vars

(* --------------------- two requests for the last unit ------------------ *)

\* one item: one unit of the tracked product
RaceBody == Obj(Str("u1"), Arr(<<Item(Str("p1"), Num(1), Undefined)>>), Num(20))

ReceiveRace(r) == ReceiveFrom(r, {RaceBody})

InitRace == Init /\ products = ProductRows(1)

NextRace ==
  \E r \in Reqs :
    \/ ReceiveRace(r)
    \/ FindUser(r)
    \/ FindProducts(r)
    \/ TxCreateOrder(r)
    \/ TxCreateItem(r)
    \/ TxDecrement(r)
    \/ TxFindOrder(r)
    \/ TxCommit(r)
    \/ StoreThrow(r)

SpecRace == InitRace /\ [][NextRace]_vars

(* ----------------------- one request, any body ------------------------ *)

ReceiveAny == ReceiveFrom(1, Bodies)

NextOne ==
  \/ ReceiveAny
  \/ FindUser(1)
  \/ FindProducts(1)
  \/ TxCreateOrder(1)
  \/ TxCreateItem(1)
  \/ TxDecrement(1)
  \/ TxFindOrder(1)
  \/ TxCommit(1)
  \/ StoreThrow(1)

SpecOne == Init /\ [][NextOne]_vars

(* ------------------- orders while catalog prices change ---------------- *)

\* bodies of one item, with and without an explicit price
PricedBodies ==
  { Obj(Str("u1"), Arr(<<Item(Str(p), Num(1), pr)>>), Num(20)) :
      p \in {"p1", "p2"}, pr \in {Undefined, Num(0), Num(5)} }

ReceivePriced(r) == ReceiveFrom(r, PricedBodies)

\* the prices catalog management gives a product
CatalogPrices == {Num(20), Num(30)}

\* catalog management replaces the price of product p; the row must not be
\* locked by an open transaction
PriceChange(p) ==
  /\ \A q \in Reqs : p \notin DOMAIN txStock[q]
  /\ \E price \in CatalogPrices \ {products[p].price} :
       products' = [products EXCEPT ![p].price = price]
  /\ UNCHANGED <<products0, orders, orderItems, pc, payload, idx, snap,
                 txOrders, txItems, txStock, fullOrder, failedAt, resp>>
  /\ UNCHANGED <<uservars, callvars, clientvars, filevars, cartvars>>

NextPrice ==
  \/ \E r \in Reqs :
       \/ ReceivePriced(r)
       \/ FindUser(r)
       \/ FindProducts(r)
       \/ TxCreateOrder(r)
       \/ TxCreateItem(r)
       \/ TxDecrement(r)
       \/ TxFindOrder(r)
       \/ TxCommit(r)
       \/ StoreThrow(r)
  \/ \E p \in DOMAIN products : PriceChange(p)

SpecPrice == InitRace /\ [][NextPrice]_vars

(* --------------------- validateOrderPayload, alone --------------------- *)

\* valid bodies in which prices and totals vary
VariedBodies ==
  { Obj(Str("u1"), Arr(<<Item(Str("p1"), Num(1), pr)>>), tot) :
      pr \in {Undefined, Num(0), Num(5), Frac(4), Num(-3)},
      tot \in {Num(0), Frac(19), Num(40)} }

\* what the validator is called with: any parsed JSON value
ValidatorInputs == (Bodies \ {Malformed}) \cup VariedBodies

InitValidate ==
  /\ InitOrders /\ products = ProductRows(1)
  /\ InitUsers
  /\ InitClient /\ InitFile /\ InitCart
  /\ call \in {[fn |-> "validateOrderPayload", arg |-> b] : b \in ValidatorInputs}
  /\ result = NoResult

\* const data = validateOrderPayload(body)
Validate ==
  /\ call.fn = "validateOrderPayload"
  /\ result = NoResult
  /\ result' = validateOrderPayload(call.arg)
  /\ UNCHANGED <<call, ordervars, uservars, clientvars, filevars, cartvars>>

NextValidate == Validate

SpecValidate == InitValidate /\ [][NextValidate]_vars

(* ------------------------------ /users -------------------------------- *)

EmailA == Str("a@x.io")
EmailB == Str("b@x.io")

\* a JSON object with the fields among email, password and id that are given
UserBody(e, p, i) ==
  LET all == [email |-> e, password |-> p, id |-> i]
  IN [f \in {"t"} \cup {g \in DOMAIN all : all[g].t # "undefined"} |->
        IF f = "t" THEN "object" ELSE all[f]]

\* obj[f], undefined when obj has no such property
Field(obj, f) == IF f \in DOMAIN obj THEN obj[f] ELSE Undefined

\* {...a, ...b}
Spread(a, b) ==
  [f \in DOMAIN a \cup DOMAIN b |-> IF f \in DOMAIN b THEN b[f] ELSE a[f]]

\* the bodies sent to POST /users
PostBodies ==
  { UserBody(e, p, Undefined) : e \in {Undefined, EmailA, EmailB},
                                p \in {Undefined, Str("pw"), Num(1)} }
  \cup { UserBody(EmailB, Str("pw"), Str("x")), Null, Malformed }

\* the bodies sent to PUT /users
PutBodies ==
  { UserBody(EmailA, Undefined, Undefined), UserBody(EmailB, Undefined, Undefined),
    UserBody(Undefined, Str("new"), Undefined), UserBody(Undefined, Str(""), Undefined),
    UserBody(Undefined, Undefined, Str("x")), Malformed }

\* the id and email query parameters: searchParams.get gives null when absent
Queries ==
  { [id |-> i, email |-> e] :
      i \in {Null, Str("k1"), Str("zz")}, e \in {Null, EmailA} }
  \cup { [id |-> Null, email |-> EmailB] }

\* the password digest stored for the text pw: distinct from the text itself
Sha256(pw) == [t |-> "string", v |-> "sha256:" \o pw]

\* crypto.createHash('sha256').update(password).digest('hex')
hashPassword(password) == Sha256(password.v)

\* the whole record is returned
sanitizeUserKeepsAll(user) == user

\* the record without its password property
sanitizeUser(user) ==
  IF user.t = "null" THEN user
  ELSE [f \in DOMAIN user \ {"password"} |-> user[f]]

\* the id the n-th call of randomUUID returns
Uuid(n) == "k" \o ToString(n)

\* Map.has, Map.get, Map.set and Map.delete: a Map keeps its entries in the
\* order their keys were first set
MapHas(store, key) == \E i \in 1..Len(store) : store[i].key = key
MapGet(store, key) ==
  IF MapHas(store, key)
  THEN store[CHOOSE i \in 1..Len(store) : store[i].key = key].user
  ELSE Undefined
MapSet(store, key, user) ==
  IF MapHas(store, key)
  THEN [i \in 1..Len(store) |->
          IF store[i].key = key THEN [key |-> key, user |-> user] ELSE store[i]]
  ELSE Append(store, [key |-> key, user |-> user])
MapDelete(store, key) ==
  LET keep == {i \in 1..Len(store) : store[i].key # key}
      RECURSIVE From(_)
      From(i) == IF i > Len(store) THEN <<>>
                 ELSE (IF i \in keep THEN <<store[i]>> ELSE <<>>) \o From(i + 1)
  IN From(1)

\* memoryStore.getAll
getAll(store) == [i \in 1..Len(store) |-> store[i].user]

\* memoryStore.getById
getById(store, id) == Nullish(MapGet(store, id.v), Null)

\* memoryStore.getByEmail: the first record with that email
getByEmail(store, email) ==
  LET hits == {i \in 1..Len(store) : Field(store[i].user, "email") = email}
  IN IF hits = {} THEN Null
     ELSE store[CHOOSE i \in hits : \A j \in hits : i <= j].user

\* NextResponse.json(body, {status})
UserJson(status, body) == [status |-> status, body |-> body]
UserError(status, error) == UserJson(status, [t |-> "object", error |-> error])

\* the message of the TypeError hash.update raises for a number
HashTypeError ==
  "The \"data\" argument must be of type string or an instance of Buffer, TypedArray, or DataView. Received type number (1)"

\* the handler of u returns response; uinput keeps the request it served
URespond(u, response) ==
  /\ uresp' = [uresp EXCEPT ![u] = response]
  /\ upc' = [upc EXCEPT ![u] = "idle"]
  /\ existing' = [existing EXCEPT ![u] = Null]

\* the handler of u is suspended at the store call whose read gave found
UAwait(u, at, found) ==
  /\ upc' = [upc EXCEPT ![u] = at]
  /\ existing' = [existing EXCEPT ![u] = found]
  /\ uresp' = [uresp EXCEPT ![u] = NoUserResp]

\* the n-th request arrives, at a handler that serves no other
UArrive(u, op, q, body) ==
  /\ upc[u] = "idle"
  /\ ucount < MaxUserCalls
  /\ ucount' = ucount + 1
  /\ uinput' = [uinput EXCEPT ![u] =
                  [n |-> ucount + 1, op |-> op, id |-> q.id, email |-> q.email,
                   body |-> body]]

NoQuery == [id |-> Null, email |-> Null]

\* a lookup that prefers the email to the id
IdentifyByEmailFirst(store, q) ==
  IF ~Falsy(q.email) THEN getByEmail(store, q.email) ELSE getById(store, q.id)

\* id ? adapter.getById(id) : adapter.getByEmail(email)
Identify(store, q) ==
  IF ~Falsy(q.id) THEN getById(store, q.id) ELSE getByEmail(store, q.email)

\* GET /users
UGet(u) ==
  /\ \E q \in Queries :
       /\ UArrive(u, "GET", q, Undefined)
       /\ IF ~Falsy(q.id) \/ ~Falsy(q.email)
          THEN LET found == Identify(users, q)
               IN IF found.t = "null"
                  THEN URespond(u, UserError(404, "User not found"))
                  ELSE URespond(u, UserJson(200, sanitizeUser(found)))
          ELSE LET all == getAll(users)
               IN URespond(u, UserJson(200,
                    Arr([i \in 1..Len(all) |-> sanitizeUser(all[i])])))
  /\ UNCHANGED <<users, uuids>>
  /\ UNCHANGED <<ordervars, callvars, clientvars, filevars, cartvars>>

\* POST /users up to the return of adapter.getByEmail
UPostLookup(u) ==
  /\ \E body \in PostBodies :
       LET parsed == RequestJson(body)
       IN /\ UArrive(u, "POST", NoQuery, body)
          /\ IF ~parsed.ok
             THEN URespond(u, UserError(500, parsed.message))
             ELSE IF \/ Falsy(body)
                     \/ Falsy(Field(body, "email"))
                     \/ Falsy(Field(body, "password"))
             THEN URespond(u, UserError(400, "Email and password are required"))
             ELSE UAwait(u, "create", getByEmail(users, body.email))
  /\ UNCHANGED <<users, uuids>>
  /\ UNCHANGED <<ordervars, callvars, clientvars, filevars, cartvars>>

\* POST /users from the return of adapter.getByEmail on
UPostCreate(u) ==
  /\ upc[u] = "create"
  /\ LET body == uinput[u].body
     IN IF existing[u].t # "null"
        THEN /\ URespond(u, UserError(409, "Email already in use"))
             /\ UNCHANGED <<users, uuids>>
        ELSE IF TypeOf(body.password) # "string"
        THEN /\ URespond(u, UserError(500, HashTypeError))
             /\ UNCHANGED <<users, uuids>>
        ELSE LET toCreate ==
                   [t |-> "object",
                    name |-> Nullish(Field(body, "name"), Null),
                    email |-> body.email,
                    password |-> hashPassword(body.password),
                    role |-> Nullish(Field(body, "role"), Str("user"))]
                 fresh == Field(toCreate, "id").t \in {"undefined", "null"}
                 id == IF fresh THEN Str(Uuid(uuids + 1)) ELSE toCreate.id
                 created == Spread([t |-> "object", id |-> id], toCreate)
             IN /\ users' = MapSet(users, id.v, created)
                /\ uuids' = IF fresh THEN uuids + 1 ELSE uuids
                /\ URespond(u, UserJson(201, sanitizeUser(created)))
  /\ UNCHANGED <<ucount, uinput>>
  /\ UNCHANGED <<ordervars, callvars, clientvars, filevars, cartvars>>

\* PUT /users up to the return of the lookup
UPutLookup(u) ==
  /\ \E q \in Queries, body \in PutBodies :
       LET parsed == RequestJson(body)
       IN /\ UArrive(u, "PUT", q, body)
          /\ IF Falsy(q.id) /\ Falsy(q.email)
             THEN URespond(u, UserError(400, "id or email query parameter is required"))
             ELSE IF ~parsed.ok
             THEN URespond(u, UserError(500, parsed.message))
             ELSE UAwait(u, "update", Identify(users, q))
  /\ UNCHANGED <<users, uuids>>
  /\ UNCHANGED <<ordervars, callvars, clientvars, filevars, cartvars>>

\* existing.id ?? id
TargetId(u) == Nullish(Field(existing[u], "id"), uinput[u].id)

\* PUT /users from the return of the lookup on
UPutUpdate(u) ==
  /\ upc[u] = "update"
  /\ LET updates == uinput[u].body
         updatePayload ==
           IF ~Falsy(Field(updates, "password"))
           THEN Spread(updates, [password |-> hashPassword(updates.password)])
           ELSE updates
     IN IF existing[u].t = "null"
        THEN /\ URespond(u, UserError(404, "User not found"))
             /\ UNCHANGED users
        ELSE IF Falsy(TargetId(u))
        THEN /\ URespond(u, UserError(500, "Unable to determine user id"))
             /\ UNCHANGED users
        ELSE IF ~MapHas(users, TargetId(u).v)
        THEN /\ URespond(u, UserJson(200, sanitizeUser(Null)))
             /\ UNCHANGED users
        ELSE LET updated == Spread(MapGet(users, TargetId(u).v), updatePayload)
             IN /\ users' = MapSet(users, TargetId(u).v, updated)
                /\ URespond(u, UserJson(200, sanitizeUser(updated)))
  /\ UNCHANGED <<uuids, ucount, uinput>>
  /\ UNCHANGED <<ordervars, callvars, clientvars, filevars, cartvars>>

\* DELETE /users up to the return of the lookup
UDeleteLookup(u) ==
  /\ \E q \in Queries :
       /\ UArrive(u, "DELETE", q, Undefined)
       /\ IF Falsy(q.id) /\ Falsy(q.email)
          THEN URespond(u, UserError(400, "id or email query parameter is required"))
          ELSE UAwait(u, "delete", Identify(users, q))
  /\ UNCHANGED <<users, uuids>>
  /\ UNCHANGED <<ordervars, callvars, clientvars, filevars, cartvars>>

\* DELETE /users from the return of the lookup on
UDeleteRemove(u) ==
  /\ upc[u] = "delete"
  /\ IF existing[u].t = "null"
     THEN /\ URespond(u, UserError(404, "User not found"))
          /\ UNCHANGED users
     ELSE IF Falsy(TargetId(u))
     THEN /\ URespond(u, UserError(500, "Unable to determine user id"))
          /\ UNCHANGED users
     ELSE LET deleted == Nullish(MapGet(users, TargetId(u).v), Null)
          IN /\ users' = MapDelete(users, TargetId(u).v)
             /\ URespond(u, UserJson(200,
                  [t |-> "object", success |-> Bool(TRUE), user |-> sanitizeUser(deleted)]))
  /\ UNCHANGED <<uuids, ucount, uinput>>
  /\ UNCHANGED <<ordervars, callvars, clientvars, filevars, cartvars>>

NextUsers ==
  \E u \in UReqs :
    \/ UGet(u)
    \/ UPostLookup(u)
    \/ UPostCreate(u)
    \/ UPutLookup(u)
    \/ UPutUpdate(u)
    \/ UDeleteLookup(u)
    \/ UDeleteRemove(u)

SpecUsers == InitRace /\ [][NextUsers]_vars

(* ------------- what the routes answer about stored users --------------- *)

\* an order row with its items, their products and the user projection
WithRelations(o) ==
  [id |-> o.id, userId |-> o.userId, total |-> o.total, status |-> o.status,
   items |-> {[productId |-> row.productId, quantity |-> row.quantity,
               price |-> row.price, product |-> products[row.productId]] :
                row \in {x \in orderItems : x.orderId = o.id}},
   user |-> SelectUser(UserRows[o.userId])]

\* GET /orders: prisma.order.findMany with items, products and the user
\* projection, or the answer of its catch block.  The order of the list is
\* not modelled.
GetOrders ==
  /\ call' = [fn |-> "GET /orders"]
  /\ \/ result' = [status |-> 200,
                   body |-> [success |-> TRUE,
                             data |-> {WithRelations(o) : o \in orders}]]
     \/ \E message \in StoreMessages : result' = ErrorResponse(500, message)
  /\ UNCHANGED <<ordervars, uservars, clientvars, filevars, cartvars>>

\* requests to /users one after the other, one POST /orders, and GET /orders
NextPrivacy ==
  \/ UGet(1)
  \/ UPostLookup(1)
  \/ UPostCreate(1)
  \/ UPutLookup(1)
  \/ UPutUpdate(1)
  \/ UDeleteLookup(1)
  \/ UDeleteRemove(1)
  \/ ReceiveRace(1)
  \/ FindUser(1)
  \/ FindProducts(1)
  \/ TxCreateOrder(1)
  \/ TxCreateItem(1)
  \/ TxDecrement(1)
  \/ TxFindOrder(1)
  \/ TxCommit(1)
  \/ StoreThrow(1)
  \/ GetOrders

SpecPrivacy == InitRace /\ [][NextPrivacy]_vars

(* ---------------------------- GET /products --------------------------- *)

\* the largest and the default page size
MaxLimit == 100
DefaultLimit == 20

\* a product record; a property the record lacks reads undefined
CRow(id, name, description, category, price, createdAt) ==
  [t |-> "object", id |-> id, name |-> Str(name), description |-> Str(description),
   category |-> Str(category), price |-> price, createdAt |-> createdAt]

RedHat == CRow("c1", "Red Hat", "warm", "hats", Num(30), Str("2024-01-03"))
BlueCap == CRow("c2", "Blue Cap", "a red brim", "hats", Undefined, Str("2024-01-01"))
Scarf == CRow("c3", "Scarf", "", "scarves", Num(10), Str("2024-01-02"))
Sock == CRow("c4", "Sock", "", "Red", Num(20), Str("2024-01-04"))

\* the product collections, in the order the file holds them
Catalogs == { <<RedHat, BlueCap, Scarf, Sock>>, <<Sock, BlueCap, Scarf, RedHat>> }

\* Number(s) for the texts a query parameter takes
ToNumber(s) ==
  CASE s = "0" -> Num(0) [] s = "1" -> Num(1) [] s = "2" -> Num(2)
    [] s = "3" -> Num(3) [] s = "-1" -> Num(-1) [] s = "1.5" -> Frac(1)
    [] s = "101" -> Num(101) [] OTHER -> NaN

\* Number(x)
Number(x) ==
  CASE x.t = "string" -> (IF x.v = "" THEN Num(0) ELSE ToNumber(x.v))
    [] x.t = "null" -> Num(0)
    [] x.t \in {"undefined", "object"} -> NaN
    [] OTHER -> x

\* x || y
Or(x, y) == IF Falsy(x) THEN y ELSE x

\* twice the number x, for x finite
Twice(x) == IF x.t = "frac" THEN 2 * x.v + 1 ELSE 2 * x.v

\* Math.max(a, b) and Math.min(a, b): NaN when either is NaN
MathMax(a, b) ==
  IF a.t = "nan" \/ b.t = "nan" THEN NaN
  ELSE IF Twice(a) >= Twice(b) THEN a ELSE b
MathMin(a, b) ==
  IF a.t = "nan" \/ b.t = "nan" THEN NaN
  ELSE IF Twice(a) <= Twice(b) THEN a ELSE b

\* const page = Math.max(1, Number(get("page") || 1))
EffectivePage(c) == MathMax(Num(1), Number(Or(c.page, Num(1))))

\* const limit = Math.min(100, Math.max(1, Number(get("limit") || 20)))
EffectiveLimit(c) ==
  MathMin(Num(MaxLimit), MathMax(Num(1), Number(Or(c.limit, Num(DefaultLimit)))))

\* (get("order") || "desc").toLowerCase()
EffectiveOrder(c) == ToLowerCase(Or(c.order, Str("desc")).v)

\* get("sort") || "createdAt"
EffectiveSort(c) == Or(c.sort, Str("createdAt")).v

\* four times (page - 1) * limit, and four times that plus limit
Start4(page, limit) == (Twice(page) - 2) * Twice(limit)
End4(page, limit) == Start4(page, limit) + 2 * Twice(limit)

\* the index Array.prototype.slice makes of a bound given in quarters:
\* truncated, and at most the length
SliceIndex(n4, len) == IF n4 \div 4 > len THEN len ELSE n4 \div 4

\* list.slice(start, start + limit), start being (page - 1) * limit; a NaN
\* bound counts as 0
Paged(list, page, limit) ==
  IF page.t = "nan" \/ limit.t = "nan" THEN <<>>
  ELSE SubSeq(list, SliceIndex(Start4(page, limit), Len(list)) + 1,
                    SliceIndex(End4(page, limit), Len(list)))

\* the filter of the file path for the lower-cased search text s
MatchesSearch(p, s) ==
  \/ ~Falsy(p.name) /\ Includes(ToLowerCase(p.name.v), s)
  \/ ~Falsy(p.description) /\ Includes(ToLowerCase(p.description.v), s)
  \/ p.category.t = "string" /\ Includes(ToLowerCase(p.category.v), s)

\* the records of list that pass the search and category filters
RECURSIVE Filtered(_, _, _)
Filtered(list, search, category) ==
  IF list = <<>> THEN <<>>
  ELSE LET p == Head(list)
           keep == /\ Falsy(search) \/ MatchesSearch(p, ToLowerCase(search.v))
                   /\ Falsy(category) \/ p.category = category
       IN (IF keep THEN <<p>> ELSE <<>>) \o Filtered(Tail(list), search, category)

\* the place of a character of an ISO date among the characters
CharRank(c) ==
  CASE c = "-" -> 0 [] c = "0" -> 1 [] c = "1" -> 2 [] c = "2" -> 3
    [] c = "3" -> 4 [] c = "4" -> 5 [] c = "5" -> 6 [] c = "6" -> 7
    [] c = "7" -> 8 [] c = "8" -> 9 [] c = "9" -> 10 [] OTHER -> 11

\* a.localeCompare(b), as a sign, for texts of dates
RECURSIVE localeCompare(_, _)
localeCompare(a, b) ==
  IF Len(a) = 0 /\ Len(b) = 0 THEN 0
  ELSE IF Len(a) = 0 THEN -1
  ELSE IF Len(b) = 0 THEN 1
  ELSE LET x == CharRank(SubSeq(a, 1, 1))
           y == CharRank(SubSeq(b, 1, 1))
       IN IF x < y THEN -1
          ELSE IF x > y THEN 1
          ELSE localeCompare(SubSeq(a, 2, Len(a)), SubSeq(b, 2, Len(b)))

\* the sign of a number
Sign(n) == IF n < 0 THEN -1 ELSE IF n > 0 THEN 1 ELSE 0

\* the comparator of filtered.sort, as a sign
Compare(a, b, sort, order) ==
  LET aVal == Field(a, sort)
      bVal == Field(b, sort)
  IN IF aVal.t = "undefined" /\ bVal.t = "undefined" THEN 0
     ELSE IF aVal.t = "undefined" THEN (IF order = "asc" THEN -1 ELSE 1)
     ELSE IF bVal.t = "undefined" THEN (IF order = "asc" THEN 1 ELSE -1)
     ELSE IF aVal.t = "string" /\ bVal.t = "string"
     THEN (IF order = "asc" THEN localeCompare(aVal.v, bVal.v)
           ELSE localeCompare(bVal.v, aVal.v))
     ELSE (IF order = "asc" THEN Sign(Twice(aVal) - Twice(bVal))
           ELSE Sign(Twice(bVal) - Twice(aVal)))

\* x put into the sorted list: before the first record the comparator puts
\* after it (Array.prototype.sort is stable)
RECURSIVE Inserted(_, _, _, _)
Inserted(sorted, x, sort, order) ==
  IF sorted = <<>> THEN <<x>>
  ELSE IF Compare(Head(sorted), x, sort, order) > 0 THEN <<x>> \o sorted
  ELSE <<Head(sorted)>> \o Inserted(Tail(sorted), x, sort, order)

\* filtered.sort((a, b) => ...)
RECURSIVE Sorted(_, _, _)
Sorted(list, sort, order) ==
  IF list = <<>> THEN <<>>
  ELSE Inserted(Sorted(SubSeq(list, 1, Len(list) - 1), sort, order),
                list[Len(list)], sort, order)

\* a number as JSON.stringify writes it: NaN becomes null
JsonNumber(x) == IF x.t = "nan" THEN Null ELSE x

\* NextResponse.json({data, meta: {total, page, limit}}, {status: 200})
PageResponse(data, total, page, limit) ==
  [status |-> 200, data |-> data,
   meta |-> [total |-> total, page |-> JsonNumber(page),
             limit |-> JsonNumber(limit)]]

\* the file path of GET /products
FileGet(c) ==
  LET filtered == Filtered(c.rows, Or(c.q, Str("")), c.category)
      sorted == Sorted(filtered, EffectiveSort(c), EffectiveOrder(c))
  IN PageResponse(Paged(sorted, EffectivePage(c), EffectiveLimit(c)),
                  Len(filtered), EffectivePage(c), EffectiveLimit(c))

\* the records of list for which p[sort] is present, or is absent
Having(list, sort, present) ==
  SelectSeq(list, LAMBDA p : (Field(p, sort).t # "undefined") = present)

\* the rows in the order the database gives them for orderBy {[sort]: order};
\* where NULLs go is the database's choice
DbOrdered(list, sort, order, nulls) ==
  LET dir == IF order = "asc" THEN "asc" ELSE "desc"
      has == Sorted(Having(list, sort, TRUE), sort, dir)
      lacks == Having(list, sort, FALSE)
  IN IF nulls = "first" THEN lacks \o has ELSE has \o lacks

\* whether the client takes x as an Int argument
IsInt(x) == x.t = "int"

\* findMany({skip, take}) of the ordered rows, skip and take being whole
Window(list, skip, take) ==
  SubSeq(list, (IF skip > Len(list) THEN Len(list) ELSE skip) + 1,
               IF skip + take > Len(list) THEN Len(list) ELSE skip + take)

\* NextResponse.json({error: "Internal Server Error"}, {status: 500})
CatalogError == [status |-> 500, error |-> "Internal Server Error"]

\* the prisma path of GET /products. The client refuses a skip or a take
\* with a fractional part; one that is NaN it either refuses or, NaN being
\* written as null, takes as not given: c.nan says which
PrismaGet(c) ==
  LET page == EffectivePage(c)
      limit == EffectiveLimit(c)
      where == Filtered(c.rows, Or(c.q, Str("")), c.category)
      rows == DbOrdered(where, EffectiveSort(c), EffectiveOrder(c), c.nulls)
      skipNaN == page.t = "nan" \/ limit.t = "nan"
      takeNaN == limit.t = "nan"
      skip == IF skipNaN THEN 0 ELSE Start4(page, limit) \div 4
      take == IF takeNaN THEN Len(rows) ELSE limit.v
  IN IF \/ skipNaN /\ c.nan = "refused"
        \/ ~skipNaN /\ Start4(page, limit) % 4 # 0
        \/ ~takeNaN /\ ~IsInt(limit)
     THEN CatalogError
     ELSE PageResponse(Window(rows, skip, take), Len(where), page, limit)

\* the query strings of page and of limit
PageTexts == {Null, Str("0"), Str("1"), Str("2"), Str("1.5"), Str("-1"), Str("abc")}
LimitTexts ==
  {Null, Str("0"), Str("1"), Str("2"), Str("3"), Str("1.5"), Str("101"), Str("abc")}

\* the requests GET /products is checked with
CatalogQueries ==
  [fn : {"GET /products"}, path : {"prisma", "file"}, rows : Catalogs,
   nulls : {"first", "last"}, nan : {"refused", "ignored"},
   q : {Null, Str("Red")}, category : {Null, Str("hats")},
   sort : {Null, Str("price")}, order : {Null, Str("asc"), Str("DESC")},
   page : PageTexts, limit : LimitTexts]

InitCatalog ==
  /\ InitOrders /\ products = ProductRows(1)
  /\ InitUsers
  /\ InitClient /\ InitFile /\ InitCart
  /\ call \in CatalogQueries
  /\ result = NoResult

\* export async function GET(req)
GetProducts ==
  /\ call.fn = "GET /products"
  /\ result = NoResult
  /\ result' = IF call.path = "prisma" THEN PrismaGet(call) ELSE FileGet(call)
  /\ UNCHANGED <<call, ordervars, uservars, clientvars, filevars, cartvars>>

NextCatalog == GetProducts

SpecCatalog == InitCatalog /\ [][NextCatalog]_vars

(* ---------------------------- POST /products ------------------------- *)

\* s.trim(), for texts whose only white space is the blank
RECURSIVE Trim(_)
Trim(s) ==
  IF Len(s) = 0 THEN ""
  ELSE IF SubSeq(s, 1, 1) = " " THEN Trim(SubSeq(s, 2, Len(s)))
  ELSE IF SubSeq(s, Len(s), Len(s)) = " " THEN Trim(SubSeq(s, 1, Len(s) - 1))
  ELSE s

\* a JSON object with the fields among name, price and stock that are given
ProductBody(name, price, stock) ==
  LET all == [name |-> name, price |-> price, stock |-> stock]
  IN [f \in {"t"} \cup {g \in DOMAIN all : all[g].t # "undefined"} |->
        IF f = "t" THEN "object" ELSE all[f]]

\* the bodies POST /products is sent
ProductBodies ==
  { ProductBody(n, p, k) :
      n \in {Str(" Lamp"), Undefined}, p \in {Num(5), Str("abc")},
      k \in {Undefined, Null, Num(2), Str("abc")} }

\* isNaN(x) || !Number.isFinite(x)
NotFinite(x) == x.t \in {"nan", "inf"}

\* validateProductPayload(body), for the fields name, price and stock
validateProductPayload(body) ==
  LET name == Field(body, "name")
      price == Field(body, "price")
      stock == Field(body, "stock")
      nameBad == Falsy(name) \/ name.t # "string" \/ Len(Trim(name.v)) < 1
      priceBad == price.t \in {"undefined", "null"} \/ Number(price).t = "nan"
      stockBad == stock.t # "undefined" /\ NotFinite(Number(stock))
      errors ==
        (IF nameBad THEN <<"name is required and must be a non-empty string">>
         ELSE <<>>)
        \o (IF priceBad THEN <<"price is required and must be a number">> ELSE <<>>)
        \o (IF stockBad THEN <<"stock must be a number">> ELSE <<>>)
  IN IF Falsy(body) \/ TypeOf(body) # "object"
     THEN [valid |-> FALSE, errors |-> <<"Invalid JSON payload">>]
     ELSE IF errors # <<>> THEN [valid |-> FALSE, errors |-> errors]
     ELSE [valid |-> TRUE,
           value |-> [name |-> Str(Trim(name.v)), price |-> Number(price),
                      stock |-> IF stock.t = "undefined" THEN Undefined
                                ELSE Number(stock)]]

\* the stock a new product gets when the payload has none
DefaultStock == 0

\* the stock of newProduct: payload.stock ?? 0
NewStock(value) == Nullish(value.stock, Num(DefaultStock))

\* const newProduct = {id, name, price, stock, ...}
NewProduct(id, value) ==
  [id |-> id, name |-> value.name.v, price |-> Nullish(value.price, Num(0)),
   stock |-> NewStock(value)]

\* the id crypto.randomUUID() gives the product
NewProductId == "p3"

\* POST /products with the store client at hand: the product is validated
\* and created as a row of the product table
CreateProduct ==
  /\ call = NoCall
  /\ \E body \in ProductBodies :
       LET validation == validateProductPayload(body)
       IN /\ call' = [fn |-> "POST /products", body |-> body]
          /\ IF ~validation.valid
             THEN /\ result' = [status |-> 400, errors |-> validation.errors]
                  /\ UNCHANGED products
             ELSE LET created == NewProduct(NewProductId, validation.value)
                  IN /\ products' =
                          [p \in DOMAIN products \cup {created.id} |->
                             IF p = created.id THEN created ELSE products[p]]
                     /\ result' = [status |-> 201, data |-> created]
  /\ UNCHANGED <<products0, orders, orderItems, pc, payload, idx, snap,
                 txOrders, txItems, txStock, fullOrder, failedAt, resp>>
  /\ UNCHANGED <<uservars, clientvars, filevars, cartvars>>

\* orders for the new product, by an existing user
NewProductOrders ==
  { Obj(Str("u1"), Arr(<<Item(Str(NewProductId), Num(q), Undefined)>>), Num(5)) :
      q \in 1..2 }

ReceiveNewProductOrder == ReceiveFrom(1, NewProductOrders)

NextStock ==
  \/ CreateProduct
  \/ ReceiveNewProductOrder
  \/ FindUser(1)
  \/ FindProducts(1)
  \/ TxCreateOrder(1)
  \/ TxCreateItem(1)
  \/ TxDecrement(1)
  \/ TxFindOrder(1)
  \/ TxCommit(1)
  \/ StoreThrow(1)

SpecStock == InitRace /\ [][NextStock]_vars

(* ------------------------ an order, fetched again ---------------------- *)

\* bodies of one or two items, the same product twice among them, with and
\* without explicit prices
RefetchBodies ==
  PricedBodies
  \cup { Obj(Str("u1"), Arr(<<Item(Str("p2"), Num(1), a), Item(Str("p2"), Num(q), b)>>),
             Num(t)) :
           a \in {Undefined, Num(5)}, b \in {Undefined, Num(5)}, q \in 1..2,
           t \in {0, 20} }
  \cup { Obj(Str("u1"), Arr(<<Item(Str("p1"), Num(1), Num(5)),
                              Item(Str("p2"), Num(2), Undefined)>>), Num(20)) }

ReceiveRefetch == ReceiveFrom(1, RefetchBodies)

\* the committed order row o with its items, in the order they were created,
\* their products and the user projection
FetchedOrder(o) ==
  LET rows == {x \in orderItems : x.orderId = o.id}
  IN [id |-> o.id, userId |-> o.userId, total |-> o.total, status |-> o.status,
      items |-> [i \in 1..Cardinality(rows) |->
                   LET row == CHOOSE x \in rows : x.idx = i
                   IN [productId |-> row.productId, quantity |-> row.quantity,
                       price |-> row.price, product |-> products[row.productId]]],
      user |-> SelectUser(UserRows[o.userId])]

\* the ids GET /orders/:id is asked for
FetchIds == 1..2

\* getOrderById(id): the order with its relations, or 404
GetOrderById ==
  \E id \in FetchIds :
    /\ call' = [fn |-> "GET /orders/:id", id |-> id]
    /\ IF \E o \in orders : o.id = id
       THEN result' = [status |-> 200,
                       body |-> [success |-> TRUE,
                                 data |-> FetchedOrder(CHOOSE o \in orders : o.id = id)]]
       ELSE result' = ErrorResponse(404, "Order not found.")
    /\ UNCHANGED <<ordervars, uservars, clientvars, filevars, cartvars>>

NextRefetch ==
  \/ ReceiveRefetch
  \/ FindUser(1)
  \/ FindProducts(1)
  \/ TxCreateOrder(1)
  \/ TxCreateItem(1)
  \/ TxDecrement(1)
  \/ TxFindOrder(1)
  \/ TxCommit(1)
  \/ StoreThrow(1)
  \/ \E p \in DOMAIN products : PriceChange(p)
  \/ GetOrderById

SpecRefetch == InitRace /\ [][NextRefetch]_vars

(* ----------------------- the HTTP client: request() -------------------- *)

\* the responses the server sends: status, status text and body text
Responses ==
  { [status |-> 200, statusText |-> "OK", text |-> t] : t \in {"", "{\"id\":1}", "oops"} }
  \cup { [status |-> 204, statusText |-> "No Content", text |-> ""] }
  \cup { [status |-> 404, statusText |-> st, text |-> t] :
           st \in {"", "Not Found"}, t \in {"", "{\"error\":\"x\"}"} }

\* res.ok
IsOk(r) == r.status >= 200 /\ r.status <= 299

\* parseBody, the text being read: null for no text, the JSON value when the
\* text parses, else the text
parseBody(text) ==
  CASE text = "" -> Null
    [] text = "{\"id\":1}" -> [t |-> "object", id |-> Num(1)]
    [] text = "{\"error\":\"x\"}" -> [t |-> "object", error |-> Str("x")]
    [] OTHER -> Str(text)

\* new ApiError(message, status, data), thrown
ApiError(message, status, data) ==
  [kind |-> "rejected", name |-> "ApiError", message |-> message,
   status |-> status, data |-> data]

\* return data
Resolved(data) == [kind |-> "resolved", data |-> data]

\* the signal fetch is given: fetchOptions is spread over init after signal
FetchSignal ==
  IF copts.signal = "caller" THEN "caller" ELSE "controller"

\* clearTimeout(id)
ClearTimeout == timer' = IF timer = "armed" THEN "cleared" ELSE timer

\* the promise request() returned settles
Settle(o) == cpc' = "settled" /\ outcome' = o

\* request(method, path, body, opts) up to await fetch(url, init): the
\* controller is made and the timer is set
CallRequest ==
  /\ cpc = "idle"
  /\ \E sig \in {"none", "caller"} : copts' = [signal |-> sig]
  /\ timer' = "armed"
  /\ cpc' = "fetching"
  /\ UNCHANGED <<elapsed, aborted, cres, outcome>>
  /\ UNCHANGED <<ordervars, uservars, callvars, filevars, cartvars>>

\* `timeout` milliseconds have passed: the timer, if still set, runs
\* controller.abort()
Deadline ==
  /\ cpc # "idle"
  /\ ~elapsed
  /\ elapsed' = TRUE
  /\ IF timer = "armed"
     THEN timer' = "fired" /\ aborted' = aborted \cup {"controller"}
     ELSE UNCHANGED <<timer, aborted>>
  /\ UNCHANGED <<cpc, copts, cres, outcome>>
  /\ UNCHANGED <<ordervars, uservars, callvars, filevars, cartvars>>

\* the caller aborts the signal it passed in fetchOptions
CallerAborts ==
  /\ cpc # "idle"
  /\ copts.signal = "caller"
  /\ "caller" \notin aborted
  /\ aborted' = aborted \cup {"caller"}
  /\ UNCHANGED <<cpc, copts, timer, elapsed, cres, outcome>>
  /\ UNCHANGED <<ordervars, uservars, callvars, filevars, cartvars>>

\* fetch resolves with the status line and headers of a response: the timer
\* is cleared; a 204 is answered at once, else the body is awaited
FetchResolves ==
  /\ cpc = "fetching"
  /\ FetchSignal \notin aborted
  /\ \E r \in Responses :
       /\ cres' = r
       /\ IF IsOk(r) /\ r.status = 204
          THEN Settle(Resolved(Null))
          ELSE cpc' = "reading" /\ outcome' = outcome
  /\ ClearTimeout
  /\ UNCHANGED <<copts, elapsed, aborted>>
  /\ UNCHANGED <<ordervars, uservars, callvars, filevars, cartvars>>

\* what request() makes of the response once its body data is at hand
Finish(data) ==
  IF ~IsOk(cres)
  THEN Settle(ApiError(IF cres.statusText # "" THEN cres.statusText
                        ELSE "Request failed", cres.status, data))
  ELSE Settle(Resolved(data))

\* response.text() resolves: the body has been received in full
BodyRead ==
  /\ cpc = "reading"
  /\ FetchSignal \notin aborted
  /\ Finish(parseBody(cres.text))
  /\ ClearTimeout
  /\ UNCHANGED <<copts, elapsed, aborted, cres>>
  /\ UNCHANGED <<ordervars, uservars, callvars, filevars, cartvars>>

\* response.text() rejects because the signal fired: parseBody takes the
\* text as ""
BodyAborted ==
  /\ cpc = "reading"
  /\ FetchSignal \in aborted
  /\ Finish(parseBody(""))
  /\ ClearTimeout
  /\ UNCHANGED <<copts, elapsed, aborted, cres>>
  /\ UNCHANGED <<ordervars, uservars, callvars, filevars, cartvars>>

\* fetch rejects with a network error
FetchFails ==
  /\ cpc = "fetching"
  /\ FetchSignal \notin aborted
  /\ Settle(ApiError("Failed to fetch", 0, Null))
  /\ ClearTimeout
  /\ UNCHANGED <<copts, elapsed, aborted, cres>>
  /\ UNCHANGED <<ordervars, uservars, callvars, filevars, cartvars>>

\* fetch rejects with an AbortError because its signal fired
FetchAborted ==
  /\ cpc = "fetching"
  /\ FetchSignal \in aborted
  /\ Settle(ApiError("Request timeout", 408, Null))
  /\ ClearTimeout
  /\ UNCHANGED <<copts, elapsed, aborted, cres>>
  /\ UNCHANGED <<ordervars, uservars, callvars, filevars, cartvars>>

NextClient ==
  \/ CallRequest
  \/ Deadline
  \/ CallerAborts
  \/ FetchResolves
  \/ BodyRead
  \/ BodyAborted
  \/ FetchFails
  \/ FetchAborted

\* time passes and a fired signal is acted on; the network owes nothing
SpecClient ==
  /\ InitRace /\ [][NextClient]_vars
  /\ WF_vars(Deadline) /\ WF_vars(FetchAborted) /\ WF_vars(BodyAborted)

(* ------------------------------ properties ---------------------------- *)

TxSteps == {"txOrder", "txItem", "txStock", "txRead", "txCommit"}

RECURSIVE SumQty(_, _)
\* the quantity a sequence of items asks of product p
SumQty(items, p) ==
  IF Len(items) = 0 THEN 0
  ELSE (IF items[1].productId = p THEN items[1].quantity ELSE 0)
       + SumQty(Tail(items), p)

RECURSIVE SumRows(_)
\* the quantity of a set of order-item rows
SumRows(rows) ==
  IF rows = {} THEN 0
  ELSE LET x == CHOOSE x \in rows : TRUE IN x.quantity + SumRows(rows \ {x})

Tracked(p) == TypeOf(products[p].stock) = "number"

InsufficientStock(response) ==
  response.status = 400 /\ Includes(response.body.error, "Insufficient stock")

\* C1: two concurrent requests for one unit each of a product with stock 1,
\* when both are answered without a store error, end with exactly one 201
\* and one insufficient-stock failure
C1_ExactlyOneSuccess ==
  (\A r \in Reqs : pc[r] = "done" /\ failedAt[r] = "")
    => /\ Cardinality({r \in Reqs : resp[r].status = 201}) = 1
       /\ \A r \in Reqs : resp[r].status # 201 => InsufficientStock(resp[r])

\* C2: the stock of every product that tracks stock is >= 0 in every
\* reachable state
C2_StockNeverNegative ==
  \A p \in DOMAIN products : Tracked(p) => products[p].stock.v >= 0

\* r leaves its transaction with a failure in this step
TxFails(r) == pc[r] \in TxSteps /\ pc'[r] = "done" /\ resp'[r].status # 201

\* C3: when a step of the write sequence of a request fails, no order row and
\* no order-item row of the request exists afterwards, and the step leaves
\* every product row as it was
C3_AllOrNothing ==
  [][\A r \in Reqs : TxFails(r) =>
       /\ products' = products
       /\ \A o \in orders' : o.id # r
       /\ \A i \in orderItems' : i.orderId # r
       /\ txOrders'[r] = {} /\ txItems'[r] = <<>> /\ txStock'[r] = NoWrites]_vars

\* a transaction failed at its last steps, after every write of the callback
C3_Witness ==
  \E r \in Reqs : failedAt[r] \in {"txRead", "txCommit"} /\ resp[r].status >= 400

\* C4: the step that answers 201 takes from every tracked product exactly
\* the quantity ordered of it and leaves every other product row unchanged
C4_ExactDecrement ==
  [][\A r \in Reqs : (pc[r] = "txCommit" /\ resp'[r].status = 201) =>
       \A p \in DOMAIN products :
         products'[p] =
           IF Tracked(p)
           THEN [products[p] EXCEPT
                   !.stock = Num(products[p].stock.v - SumQty(Data(r).items, p))]
           ELSE products[p]]_vars

\* an order of two units of the tracked product and of the untracked one was
\* answered 201
C4_Witness ==
  \E r \in Reqs :
    /\ resp[r].status = 201
    /\ Len(resp[r].body.data.items) = 2
    /\ resp[r].body.data.items[1].productId = "p1"
    /\ resp[r].body.data.items[1].quantity = 2
    /\ resp[r].body.data.items[2].productId = "p2"
    /\ products["p1"].stock.v = products0["p1"].stock.v - 2
    /\ products["p2"] = products0["p2"]

\* C5: every tracked product's stock is its initial stock minus the
\* quantities of the items of the requests answered 201, whose rows are
\* exactly the order-item rows of the store
C5_NoLostDecrement ==
  /\ \A p \in DOMAIN products : Tracked(p) =>
       products[p].stock.v =
         products0[p].stock.v - SumRows({i \in orderItems : i.productId = p})
  /\ \A i \in orderItems : resp[i.orderId].status = 201
  /\ \A r \in Reqs : resp[r].status = 201 =>
       \A k \in 1..Len(resp[r].body.data.items) :
         \E i \in orderItems :
           /\ i.orderId = r /\ i.idx = k
           /\ i.productId = resp[r].body.data.items[k].productId
           /\ i.quantity = resp[r].body.data.items[k].quantity

\* two requests that both took from the tracked product were answered 201
C5_Witness ==
  \E a, b \in Reqs :
    /\ a # b
    /\ resp[a].status = 201 /\ resp[b].status = 201
    /\ \E i, j \in orderItems :
         /\ i.orderId = a /\ j.orderId = b
         /\ i.productId = "p1" /\ j.productId = "p1"

\* r is answered in this step by a failed precondition
PreconditionFails(r) ==
  /\ pc[r] \in {"idle", "findUser", "findProducts"}
  /\ pc'[r] = "done"
  /\ failedAt'[r] = ""

\* C6: a request refused by a precondition creates no order row and no
\* order-item row and changes no product row
C6_RefusalHasNoEffect ==
  [][\A r \in Reqs : PreconditionFails(r) =>
       /\ products' = products /\ orders' = orders /\ orderItems' = orderItems
       /\ \A o \in orders' : o.id # r
       /\ \A i \in orderItems' : i.orderId # r
       /\ txOrders'[r] = {} /\ txItems'[r] = <<>> /\ txStock'[r] = NoWrites]_vars

\* a request was refused for insufficient stock, and the product rows are
\* those of the start
C6_Witness ==
  \E r \in Reqs :
    /\ failedAt[r] = ""
    /\ resp[r] = ErrorResponse(400,
         "Insufficient stock for product Widget (p1). Requested 2, available 1.")
    /\ products = products0

\* r runs its user check, resp. its product checks, in this step
UserChecked(r) == pc[r] = "findUser" /\ pc'[r] # "findUser" /\ failedAt'[r] = ""
ProductsChecked(r) ==
  pc[r] = "findProducts" /\ pc'[r] # "findProducts" /\ failedAt'[r] = ""

\* the indexes of the items of r whose product is not in the store
MissingItems(r) ==
  {i \in 1..Len(Data(r).items) : Data(r).items[i].productId \notin DOMAIN products}

\* the indexes of the items of r that ask more than the stock of a tracked product
ShortItems(r) ==
  {i \in 1..Len(Data(r).items) :
     LET item == Data(r).items[i]
     IN /\ item.productId \in DOMAIN products
        /\ Tracked(item.productId)
        /\ item.quantity > products[item.productId].stock.v}

\* C7: a missing user is answered 404 "User not found."; with the user
\* present, an item whose product is not in the store is answered 404 naming
\* a missing product id
C7_NotFoundAnswers ==
  [][\A r \in Reqs :
       /\ (UserChecked(r) /\ Data(r).userId \notin DOMAIN UserRows)
            => resp'[r] = ErrorResponse(404, "User not found.")
       /\ (ProductsChecked(r) /\ MissingItems(r) # {})
            => \E i \in MissingItems(r) :
                 resp'[r] = ErrorResponse(404,
                   "Product not found: " \o Data(r).items[i].productId)]_vars

\* C8: with every product present, the product checks answer 400 exactly
\* when an item asks more than the stock of a tracked product, and the error
\* names that product, the quantity asked and the stock
C8_InsufficientStock ==
  [][\A r \in Reqs : (ProductsChecked(r) /\ MissingItems(r) = {}) =>
       IF ShortItems(r) # {}
       THEN /\ resp'[r].status = 400
            /\ resp'[r].body.success = FALSE
            /\ \E i \in ShortItems(r) :
                 LET item == Data(r).items[i]
                     error == resp'[r].body.error
                 IN /\ Includes(error, "(" \o item.productId \o ")")
                    /\ Includes(error, products[item.productId].name)
                    /\ Includes(error, "Requested " \o ToString(item.quantity) \o ",")
                    /\ Includes(error, "available "
                         \o ToString(products[item.productId].stock.v) \o ".")
       ELSE pc'[r] = "txOrder" /\ resp'[r] = NoResp]_vars

\* one request was refused for stock, another one asking exactly the stock
\* went on to a 201
C8_Witness ==
  \E a, b \in Reqs :
    /\ InsufficientStock(resp[a])
    /\ resp[b].status = 201
    /\ \E k \in 1..Len(resp[b].body.data.items) :
         /\ resp[b].body.data.items[k].productId = "p1"
         /\ resp[b].body.data.items[k].quantity = products0["p1"].stock.v

\* the messages validateOrderPayload throws for the bodies of the model
ValidatorMessages ==
  {validateOrderPayload(b).message : b \in {x \in BrokenBodies : ~validateOrderPayload(x).ok}}

\* C9: every request whose body the validator rejects is answered 400 with
\* the body {success: false, error: message}
C9_ValidationAnswers400 ==
  \A r \in Reqs :
    (resp[r].status \notin {0, 201} /\ resp[r].body.error \in ValidatorMessages)
      => resp[r].status = 400 /\ resp[r].body.success = FALSE

\* C10: a failure the store raises during the transaction is answered 500
\* with the message of the failure
C10_StoreFailureAnswers500 ==
  \A r \in Reqs :
    failedAt[r] \in TxSteps
      => resp[r].status = 500 /\ resp[r].body.error \in StoreMessages

\* C11: every order item of a created order stores the explicit price of its
\* request item when one is given, else the catalog price of the product as
\* the request read it, else 0; and no step (a price change, another order)
\* alters or removes a stored order item.
ExpectedPrice(item, catalog) ==
  IF item.price.t # "undefined" THEN item.price
  ELSE IF catalog.price.t # "null" THEN catalog.price
  ELSE Num(0)
C11_PriceSnapshot ==
  [][ /\ orderItems \subseteq orderItems'
      /\ \A r \in Reqs :
           pc[r] = "txCommit" /\ resp'[r].status = 201 =>
             \A i \in 1..Len(Data(r).items) :
               \E row \in orderItems' \ orderItems :
                 /\ row.orderId = r /\ row.idx = i
                 /\ row.productId = Data(r).items[i].productId
                 /\ row.price = ExpectedPrice(Data(r).items[i],
                                              snap[r][row.productId]) ]_vars
\* an item priced from the catalog at 20 while the catalog now says 30, and
\* an item with an explicit price
C11_Witness ==
  /\ \E row \in orderItems :
       row.productId = "p1" /\ row.price = Num(20) /\ products["p1"].price = Num(30)
  /\ \E row \in orderItems : row.price = Num(5)

\* a number in thousandths
Mills(x) == IF x.t = "frac" THEN 1000 * x.v + 500 ELSE 1000 * x.v

\* roundToTwo, on thousandths: Math.round((value + Number.EPSILON) * 100) / 100
roundToTwo(mills) == ((mills + 5) \div 10) * 10

RECURSIVE ItemsPriceRaw(_)
\* items.reduce((sum, it) => sum + it.price * it.quantity, 0), in thousandths
ItemsPriceRaw(rows) ==
  IF rows = {} THEN 0
  ELSE LET it == CHOOSE it \in rows : TRUE
       IN Mills(it.price) * it.quantity + ItemsPriceRaw(rows \ {it})

\* calculateOrderTotals(items).totalPrice, with no shipping and no tax
calculateOrderTotals(rows) == roundToTwo(roundToTwo(ItemsPriceRaw(rows)) + 0 + 0)

\* C12: the total of every stored order is the sum over its items of stored
\* price times quantity, rounded to two decimals
C12_TotalIsItemsSum ==
  \A o \in orders :
    Mills(o.total) = calculateOrderTotals({row \in orderItems : row.orderId = o.id})

\* the conditions of acceptance, as the claim words them
ItemAcceptable(it) ==
  /\ it.t = "object"
  /\ it.productId.t = "string" /\ it.productId.v # ""
  /\ it.quantity.t = "int" /\ it.quantity.v > 0
  /\ it.price.t \in {"undefined", "int", "frac"}
ItemsAndTotalAcceptable(p) ==
  /\ p.items.t = "array" /\ Len(p.items.v) > 0
  /\ \A i \in 1..Len(p.items.v) : ItemAcceptable(p.items.v[i])
  /\ p.total.t \in {"int", "frac"} /\ p.total.v >= 0
\* the returned request carries the fields of the payload
Carries(p, value) ==
  /\ value.userId = p.userId.v
  /\ value.total = p.total
  /\ Len(value.items) = Len(p.items.v)
  /\ \A i \in 1..Len(value.items) :
       /\ value.items[i].productId = p.items.v[i].productId.v
       /\ value.items[i].quantity = p.items.v[i].quantity.v
       /\ value.items[i].price = p.items.v[i].price
Validated == call.fn = "validateOrderPayload" /\ result # NoResult

\* C13 as stated: a payload is accepted exactly when it is a non-null object,
\* its userId is a string, its items and total are acceptable; an accepted
\* payload is returned with the same fields
C13_AcceptsExactlyAsStated ==
  Validated =>
    /\ result.ok <=> /\ call.arg.t = "object"
                     /\ call.arg.userId.t = "string"
                     /\ ItemsAndTotalAcceptable(call.arg)
    /\ result.ok => Carries(call.arg, result.value)
\* C13: a payload is accepted exactly when it is a non-null object, its userId
\* is a non-empty string, its items and total are acceptable; an accepted
\* payload is returned with the same userId, total and per-item productId,
\* quantity and price
C13_AcceptsExactly ==
  Validated =>
    /\ result.ok <=> /\ call.arg.t = "object"
                     /\ call.arg.userId.t = "string" /\ call.arg.userId.v # ""
                     /\ ItemsAndTotalAcceptable(call.arg)
    /\ result.ok => Carries(call.arg, result.value)
\* an accepted payload with an explicit fractional price and a fractional total
C13_Witness ==
  /\ Validated /\ result.ok
  /\ result.value.items[1].price = Frac(4) /\ result.value.total = Frac(19)

\* the checks of the claim, in its order: the first that fails for payload p
ItemFailures(it) ==
  <<it.t # "object" /\ it.t # "array",
    it.t # "object" \/ it.productId.t # "string" \/ it.productId.v = "",
    it.t # "object" \/ it.quantity.t # "int" \/ it.quantity.v <= 0,
    it.t # "object" \/ it.price.t \notin {"undefined", "int", "frac"}>>
ItemMessages(at) ==
  <<"Item at index " \o ToString(at) \o " must be an object.",
    "Missing or invalid 'productId' for item at index " \o ToString(at) \o ".",
    "Missing or invalid 'quantity' for item at index " \o ToString(at)
      \o ". Must be a positive integer.",
    "Invalid 'price' for item at index " \o ToString(at) \o ".">>
\* pairs <<item, check>> that fail, and the first in the order of the claim
FailingChecks(items) ==
  {ic \in (1..Len(items)) \X (1..4) : ItemFailures(items[ic[1]])[ic[2]]}
FirstFailure(p) ==
  IF p.t \notin {"object", "array"} THEN "Payload must be a JSON object."
  ELSE IF p.t = "array" \/ p.userId.t # "string" \/ p.userId.v = ""
  THEN "Missing or invalid 'userId'."
  ELSE IF p.items.t # "array" \/ Len(p.items.v) = 0
  THEN "'items' must be a non-empty array."
  ELSE LET failing == FailingChecks(p.items.v)
       IN IF failing # {}
          THEN LET first == CHOOSE ic \in failing : \A jd \in failing :
                              \/ ic[1] < jd[1]
                              \/ ic[1] = jd[1] /\ ic[2] <= jd[2]
               IN ItemMessages(first[1] - 1)[first[2]]
          ELSE IF p.total.t \notin {"int", "frac"} \/ p.total.v < 0
          THEN "Missing or invalid 'total'. Must be a non-negative number."
          ELSE ""

\* C14: the validator reports the first failing check only, in the order
\* object shape, userId, items non-empty, each item in index order (object,
\* productId, quantity, price), total; an item failure names the item's index
C14_FirstFailureOnly ==
  Validated => result.message = FirstFailure(call.arg)
\* a payload whose userId, first item and total are all wrong is reported for
\* its userId; one with two bad items and no total for the item at index 0
C14_Witness ==
  /\ Validated
  /\ \/ /\ result.message = "Missing or invalid 'userId'."
        /\ call.arg.total.t = "undefined"
        /\ call.arg.items.v[1].productId.t = "undefined"
     \/ /\ result.message = "Item at index 0 must be an object."
        /\ call.arg.total.t = "undefined"
        /\ Len(call.arg.items.v) = 2

\* a response body of /users holds no password property, at top level, in
\* the element of a list, or in the user of a DELETE answer
NoPasswordIn(body) ==
  IF body.t = "array"
  THEN \A i \in 1..Len(body.v) : "password" \notin DOMAIN body.v[i]
  ELSE /\ "password" \notin DOMAIN body
       /\ "user" \in DOMAIN body => "password" \notin DOMAIN body.user

\* C15: no response of GET, POST, PUT or DELETE /users holds a password field,
\* and neither does the user projection of an order in a response of POST or
\* GET /orders
C15_NoPasswordInResponses ==
  /\ \A u \in UReqs : NoPasswordIn(uresp[u].body)
  /\ \A r \in Reqs :
       resp[r].status = 201 => "password" \notin DOMAIN resp[r].body.data.user
  /\ call.fn = "GET /orders" /\ result.status = 200 =>
       \A o \in result.body.data : "password" \notin DOMAIN o.user
\* a user with a password is stored and listed, and an order is listed with
\* its user
C15_Witness ==
  /\ \E i \in 1..Len(users) : "password" \in DOMAIN users[i].user
  /\ uresp[1].status = 200 /\ uresp[1].body.t = "array" /\ Len(uresp[1].body.v) > 0
  /\ call.fn = "GET /orders" /\ result.status = 200 /\ result.body.data # {}
  /\ "password" \in DOMAIN UserRows["u1"]

\* the step in which the handler of u answers a request of kind op
Answers(u, op) ==
  /\ uinput'[u].op = op
  /\ upc'[u] = "idle"
  /\ upc[u] # "idle" \/ uinput'[u].n # uinput[u].n
\* the positions of the stored users with that email
WithEmail(store, email) ==
  {i \in 1..Len(store) : Field(store[i].user, "email") = email}
Parses(body) == body.t # "malformed"
LacksEmailOrPassword(body) ==
  \/ body.t # "object"
  \/ Field(body, "email").t = "undefined"
  \/ Field(body, "password").t = "undefined"

\* C16: a POST /users whose body lacks email or password is answered 400 and
\* creates no user; one whose email a stored user holds is answered 409 and
\* creates no user; any other is answered 201 and leaves exactly one stored
\* user with that email.  Bodies that are not JSON are left aside.
C16_PostOutcomes ==
  [][ \A u \in UReqs :
        Answers(u, "POST") /\ Parses(uinput'[u].body) =>
          LET body == uinput'[u].body
          IN IF LacksEmailOrPassword(body)
             THEN uresp'[u].status = 400 /\ users' = users
             ELSE IF WithEmail(users, body.email) # {}
             THEN uresp'[u].status = 409 /\ users' = users
             ELSE /\ uresp'[u].status = 201
                  /\ Cardinality(WithEmail(users', body.email)) = 1 ]_vars

\* C17: no two stored users have the same email
C17_EmailsUnique ==
  \A i, j \in 1..Len(users) :
    i # j => Field(users[i].user, "email") # Field(users[j].user, "email")

\* the request names no user: it has neither an id nor an email
NamesNoUser(q) == q.id.t = "null" /\ q.email.t = "null"
\* the request names a user the store does not hold: by its id when it gives
\* one, else by its email
IdentifiesNone(store, q) ==
  IF q.id.t # "null" THEN ~MapHas(store, q.id.v)
  ELSE WithEmail(store, q.email) = {}
Refused(u, status) == uresp'[u].status = status /\ users' = users
\* the outcome of the step in which u answers, or looks up, a PUT or DELETE
\* whose body is among those in scope
PutDeleteOutcome(u, inScope(_)) ==
  LET q == uinput'[u]
  IN (Answers(u, "PUT") \/ Answers(u, "DELETE")) =>
       IF NamesNoUser(q) THEN Refused(u, 400)
       ELSE IF upc[u] = "idle"
       THEN inScope(q.body) /\ IdentifiesNone(users, q) => Refused(u, 404)
       ELSE existing[u].t = "null" => Refused(u, 404)
\* the lookup of a PUT or DELETE returns null exactly when the request
\* identifies no stored user
LookupOutcome(u) ==
  upc[u] = "idle" /\ upc'[u] \in {"update", "delete"} =>
    (existing'[u].t = "null" <=> IdentifiesNone(users, uinput'[u]))
AnyBody(body) == TRUE

RowMatches(p, c) ==
  /\ \/ c.q.t = "null"
     \/ \E f \in {"name", "description", "category"} :
          Includes(ToLowerCase(p[f].v), ToLowerCase(c.q.v))
  /\ c.category.t = "null" \/ p.category = c.category

MatchCount(c) == Cardinality({i \in 1..Len(c.rows) : RowMatches(c.rows[i], c)})

\* the filtered and sorted match list of the path the request takes
MatchList(c) ==
  LET matches == SelectSeq(c.rows, LAMBDA p : RowMatches(p, c))
  IN IF c.path = "prisma"
     THEN DbOrdered(matches, EffectiveSort(c), EffectiveOrder(c), c.nulls)
     ELSE Sorted(matches, EffectiveSort(c), EffectiveOrder(c))

\* the records of list at the positions i, counted from 0, with
\* (page - 1) * limit <= i < page * limit
SliceOfPage(list, page, limit) ==
  IF page.t = "nan" \/ limit.t = "nan" THEN <<>>
  ELSE LET at == {i \in 1..Len(list) :
                    /\ 4 * (i - 1) >= (Twice(page) - 2) * Twice(limit)
                    /\ 4 * (i - 1) < Twice(page) * Twice(limit)}
       IN [k \in 1..Cardinality(at) |->
             list[CHOOSE i \in at : Cardinality({j \in at : j < i}) = k - 1]]

Answered == call.fn = "GET /products" /\ result # NoResult

\* C19: every catalog query is answered with at most `limit` items, which are
\* the slice [(page-1)*limit, page*limit) of the filtered and sorted match
\* list, and with meta.total the number of all matches
C19_PageIsSlice ==
  Answered =>
    /\ result.status = 200
    /\ EffectiveLimit(call).t # "nan"
    /\ 2 * Len(result.data) <= Twice(EffectiveLimit(call))
    /\ result.data =
         SliceOfPage(MatchList(call), EffectivePage(call), EffectiveLimit(call))
    /\ result.meta.total = MatchCount(call)

\* C20: in the in-memory sort the records lacking the sort key come after
\* all records having it when ascending, and before them when descending
C20_LackingKeyPlaced ==
  (Answered /\ call.path = "file" /\ result.status = 200) =>
    LET sorted == Sorted(Filtered(call.rows, Or(call.q, Str("")), call.category),
                         EffectiveSort(call), EffectiveOrder(call))
        lacks(i) == Field(sorted[i], EffectiveSort(call)).t = "undefined"
    IN \A i, j \in 1..Len(sorted) :
         (lacks(i) /\ ~lacks(j)) =>
           IF EffectiveOrder(call) = "asc" THEN i > j ELSE i < j

\* what a client observes of an answer: the status, the page of items in
\* their order, and meta.total
Observed(r) ==
  IF r.status = 200
  THEN [status |-> 200, data |-> r.data, total |-> r.meta.total]
  ELSE [status |-> r.status]

\* the answers the other path can give to the same inputs over the same
\* collection
OtherPathAnswers(c) ==
  IF c.path = "file"
  THEN {PrismaGet([c EXCEPT !.path = "prisma", !.nulls = n, !.nan = x]) :
          n \in {"first", "last"}, x \in {"refused", "ignored"}}
  ELSE {FileGet([c EXCEPT !.path = "file"])}

\* C21: for the same collection and the same query inputs the store-backed
\* and the file-backed path answer with the same status, the same page of
\* items in the same order and the same meta.total
C21_PathsAgree ==
  Answered => \A other \in OtherPathAnswers(call) : Observed(other) = Observed(result)

\* a number that is at least lo and at most hi
NumberWithin(x, lo, hi) ==
  /\ x.t \in {"int", "frac"}
  /\ Twice(x) >= 2 * lo
  /\ Twice(x) <= 2 * hi

\* a number that is at least lo
NumberAtLeast(x, lo) == x.t \in {"int", "frac"} /\ Twice(x) >= 2 * lo

\* C22: whatever the page and limit query values are, the effective page is
\* a number >= 1 and the effective limit a number between 1 and 100
C22_PageAndLimitClamped ==
  Answered =>
    /\ NumberAtLeast(EffectivePage(call), 1)
    /\ NumberWithin(EffectiveLimit(call), 1, 100)

\* a product was created through POST /products from a body without stock
CreatedWithoutStock ==
  /\ call.fn = "POST /products"
  /\ result.status = 201
  /\ Field(call.body, "stock").t = "undefined"

\* the answer to the order says the stock does not cover the quantity
RejectedForStock(r) ==
  /\ resp[r].status = 400
  /\ Len(resp[r].body.error) >= 18
  /\ SubSeq(resp[r].body.error, 1, 18) = "Insufficient stock"

\* C23: an order, by an existing user, for a product created through
\* POST /products without a stock value is never rejected for insufficient
\* stock, and the product's stock is not decremented
C23_NoStockNeverBlocks ==
  [][(CreatedWithoutStock /\ pc[1] = "findProducts" /\ pc'[1] = "done")
       => (~RejectedForStock(1))' /\ products'[NewProductId].stock = result.data.stock]_vars

\* what is compared of an item: the product, the quantity and the price
ItemTriple(it) ==
  [productId |-> it.productId, quantity |-> it.quantity, price |-> it.price]

\* the sequences a and b hold the same items the same number of times
SameItems(a, b) ==
  /\ Len(a) = Len(b)
  /\ \A i \in 1..Len(a) :
       Cardinality({j \in 1..Len(a) : ItemTriple(a[j]) = ItemTriple(a[i])})
         = Cardinality({j \in 1..Len(b) : ItemTriple(b[j]) = ItemTriple(a[i])})

\* the items of the validated request with the prices their order items are
\* to keep
SubmittedItems(data, catalog) ==
  [i \in 1..Len(data.items) |->
     [productId |-> data.items[i].productId, quantity |-> data.items[i].quantity,
      price |-> ExpectedPrice(data.items[i], catalog[data.items[i].productId])]]

\* C24: the order a successful POST /orders returns has status "pending",
\* the submitted total and one item per submitted item with its product,
\* quantity and snapshot price; fetched again by its id, the order is found
\* with the same item quantities, prices and total
C24_RoundTrip ==
  [][ /\ (pc[1] = "txCommit" /\ resp'[1].status = 201) =>
           /\ resp'[1].body.data.status = "pending"
           /\ resp'[1].body.data.total = Data(1).total
           /\ SameItems(resp'[1].body.data.items, SubmittedItems(Data(1), snap[1]))
      /\ \A id \in FetchIds :
           (call' = [fn |-> "GET /orders/:id", id |-> id] /\ UNCHANGED ordervars
              /\ id \in Reqs /\ resp[id].status = 201) =>
             /\ result'.status = 200
             /\ result'.body.data.total = resp'[id].body.data.total
             /\ SameItems(result'.body.data.items, resp'[id].body.data.items) ]_vars
\* an order of two items for one product, priced 5 and from the catalog, was
\* created and fetched again after the catalog price changed
C24_Witness ==
  /\ resp[1].status = 201
  /\ Len(resp[1].body.data.items) = 2
  /\ resp[1].body.data.items[1].price # resp[1].body.data.items[2].price
  /\ call = [fn |-> "GET /orders/:id", id |-> 1]
  /\ result.status = 200
  /\ products["p2"].price # products0["p2"].price

\* the rejection with ApiError 408 "Request timeout"
TimeoutError == ApiError("Request timeout", 408, Null)

\* every call of request() settles
C25_Settles == [](cpc # "idle" => <>(cpc = "settled"))

\* a call not settled when the time is up rejects with the timeout error
C25_LateIsTimeout ==
  []((elapsed /\ cpc \in {"fetching", "reading"}) => <>(outcome = TimeoutError))

\* the request is cancelled by the timer alone
C25_OnlyTimerCancels ==
  [][(cpc # "settled" /\ FetchSignal \in aborted') => timer' = "fired"]_vars

\* C25: every call of request() settles; a call without a complete response
\* (status and body) when `timeout` milliseconds have passed is aborted and
\* rejects with ApiError 408 "Request timeout"; nothing but the timeout
\* cancels the request
C25_TimeoutBoundsRequest ==
  C25_Settles /\ C25_LateIsTimeout /\ C25_OnlyTimerCancels

\* C26: a single POST /orders never takes a tracked product's stock below
\* zero, the same product in several items included: when the quantities
\* asked of a product, summed, exceed its stock, the request is rejected for
\* insufficient stock
C26_SummedQuantityChecked ==
  [][ /\ \A p \in DOMAIN products :
           TypeOf(products'[p].stock) = "number" => products'[p].stock.v >= 0
      /\ ( /\ pc[1] = "findProducts" /\ pc'[1] # "findProducts"
           /\ failedAt'[1] = ""
           /\ \A i \in 1..Len(Data(1).items) :
                Data(1).items[i].productId \in DOMAIN products
           /\ \E p \in DOMAIN products :
                /\ TypeOf(products[p].stock) = "number"
                /\ SumQty(Data(1).items, p) > products[p].stock.v )
         => InsufficientStock(resp'[1]) ]_vars

\* the passwords, as texts, that the request bodies carry
SubmittedPasswords ==
  {Field(b, "password") : b \in {x \in PostBodies \cup PutBodies : x.t = "object"}}
    \cap {Str("pw"), Str("new"), Str("")}

\* C27: the password stored for every user is the SHA-256 hash of a
\* submitted password
C27_PasswordsStoredHashed ==
  \A i \in 1..Len(users) :
    \E pw \in SubmittedPasswords : Field(users[i].user, "password") = Sha256(pw.v)

\* the query of the request slot u served
QueryOf(u) == [id |-> uinput[u].id, email |-> uinput[u].email]

\* C28: once a DELETE /users is answered 200 with success true, a GET /users
\* with the same id or email is answered 404
C28_DeletedIsGone ==
  [][\A u \in UReqs :
       ( /\ Answers(u, "DELETE")
         /\ uresp'[u].status = 200
         /\ Field(uresp'[u].body, "success") = Bool(TRUE) )
       => Identify(users', QueryOf(u)').t = "null"]_vars

(* ------------------------- the shopping cart -------------------------- *)

\* the largest quantity the "+" button is pressed up to
MaxCartQty == 2

\* getPriceValue(p): price as a number, whether a number or a Price object
getPriceValue(p) ==
  LET pr == p.price
  IN IF pr.t \in {"undefined", "null"} THEN Num(0)
     ELSE IF TypeOf(pr) = "number" THEN pr
     ELSE IF TypeOf(pr) = "object" /\ TypeOf(Field(pr, "value")) = "number"
     THEN Field(pr, "value")
     ELSE Num(0)

\* a cart item: a product of the shop with a quantity
CartItem(id, name, price, quantity) ==
  [id |-> id, name |-> name, price |-> price, quantity |-> quantity]

\* the items a cart is loaded with: a product with a number for price, one
\* with a Price object, one without price
CartItems ==
  { CartItem("p1", "Widget", Num(20), q) : q \in 1..MaxCartQty }
  \cup { CartItem("p2", "Gadget", Null, q) : q \in 1..MaxCartQty }
  \cup { CartItem("p3", "Lamp", [t |-> "object", value |-> Num(5)], 1) }

\* what the cart is mounted with (localStorage or initialItems): up to
\* MaxItems items of distinct products
LoadedCarts ==
  {<<>>} \cup { c \in SeqsUpTo(CartItems, MaxItems) :
                  \A i, j \in 1..Len(c) : c[i].id = c[j].id => i = j }

InitCartLoaded ==
  /\ InitOrders /\ products = ProductRows(1)
  /\ InitUsers /\ InitCall /\ InitClient /\ InitFile
  /\ cart \in LoadedCarts
  /\ checkout = NoCheckout
  /\ cartMessage = NoMessage

\* prev.filter(keep)
FilterCart(c, keep(_)) == SelectSeq(c, keep)

\* updateQuantity(productId, quantity), as the "-" and "+" buttons call it:
\* "-" is disabled at quantity 1
UpdateQuantity ==
  /\ \E i \in 1..Len(cart), d \in {-1, 1} :
       LET productId == cart[i].id
           quantity == cart[i].quantity + d
       IN /\ d = -1 => cart[i].quantity > 1
          /\ quantity <= MaxCartQty
          /\ cart' = IF quantity <= 0
                     THEN LET Keep(it) == it.id # productId IN FilterCart(cart, Keep)
                     ELSE [k \in 1..Len(cart) |->
                             IF cart[k].id = productId
                             THEN [cart[k] EXCEPT !.quantity = quantity]
                             ELSE cart[k]]
  /\ UNCHANGED <<checkout, cartMessage>>
  /\ UNCHANGED <<ordervars, uservars, callvars, clientvars, filevars>>

\* removeItem(productId)
RemoveItem ==
  /\ \E i \in 1..Len(cart) :
       LET Keep(it) == it.id # cart[i].id
       IN cart' = FilterCart(cart, Keep)
  /\ UNCHANGED <<checkout, cartMessage>>
  /\ UNCHANGED <<ordervars, uservars, callvars, clientvars, filevars>>

\* clearCart(): the button is disabled on an empty cart
ClearCart ==
  /\ cart # <<>>
  /\ cart' = <<>>
  /\ cartMessage' = [type |-> "success", text |-> "Cart cleared."]
  /\ UNCHANGED checkout
  /\ UNCHANGED <<ordervars, uservars, callvars, clientvars, filevars>>

\* amounts of the order summary, in cents
TaxPercent == 8
ShippingCents == 499

RECURSIVE SubtotalCents(_)
\* items.reduce((acc, it) => acc + getPriceValue(it) * it.quantity, 0)
SubtotalCents(c) ==
  IF c = <<>> THEN 0
  ELSE 100 * getPriceValue(c[1]).v * c[1].quantity + SubtotalCents(Tail(c))

\* the payload handleCheckout builds: items and meta, nothing else
CheckoutPayload(c) ==
  LET subtotal == SubtotalCents(c)
      tax == (subtotal * TaxPercent) \div 100
      shipping == IF Len(c) > 0 THEN ShippingCents ELSE 0
  IN [t |-> "object",
      userId |-> Undefined,
      total |-> Undefined,
      items |-> Arr([i \in 1..Len(c) |->
                       [t |-> "object",
                        productId |-> Str(c[i].id),
                        name |-> Str(c[i].name),
                        price |-> getPriceValue(c[i]),
                        quantity |-> Num(c[i].quantity)]]),
      meta |-> [subtotal |-> subtotal, tax |-> tax, shipping |-> shipping,
                total |-> subtotal + tax + shipping]]

\* handleCheckout up to its fetch: an empty cart is refused on the spot, any
\* other is sent as the next request to POST /orders
Checkout ==
  /\ checkout.state = "idle"
  /\ IF Len(cart) = 0
     THEN /\ cartMessage.text # "Your cart is empty."
          /\ cartMessage' = [type |-> "error", text |-> "Your cart is empty."]
          /\ UNCHANGED checkout
     ELSE \E r \in Reqs :
            /\ pc[r] = "idle"
            /\ \A q \in Reqs : q < r => pc[q] # "idle"
            /\ checkout' = [state |-> "fetching", r |-> r,
                            body |-> CheckoutPayload(cart)]
            /\ cartMessage' = NoMessage
  /\ UNCHANGED cart
  /\ UNCHANGED <<ordervars, uservars, callvars, clientvars, filevars>>

\* POST /orders receives the request of the cart
ReceiveCheckout ==
  /\ checkout.state = "fetching"
  /\ ReceiveFrom(checkout.r, {checkout.body})

\* handleCheckout after its fetch resolved: a response that is not ok throws,
\* the catch block shows the message; a response that is ok empties the cart
CheckoutAnswered ==
  /\ checkout.state = "fetching"
  /\ pc[checkout.r] = "done"
  /\ LET res == resp[checkout.r]
     IN IF ~IsOk(res)
        THEN /\ cartMessage' =
                  [type |-> "error",
                   text |-> "Failed to create order (" \o ToString(res.status) \o ")"]
             /\ UNCHANGED cart
        ELSE /\ cart' = <<>>
             /\ cartMessage' = [type |-> "success", text |-> "Order placed successfully."]
  /\ checkout' = NoCheckout
  /\ UNCHANGED <<ordervars, uservars, callvars, clientvars, filevars>>

\* fetch rejects (no connection): the catch block shows the error's message
CheckoutFails ==
  /\ checkout.state = "fetching"
  /\ pc[checkout.r] = "idle"
  /\ cartMessage' = [type |-> "error", text |-> "Failed to fetch"]
  /\ checkout' = NoCheckout
  /\ UNCHANGED cart
  /\ UNCHANGED <<ordervars, uservars, callvars, clientvars, filevars>>

\* the cart and the handler of POST /orders up to its answer to the cart: the
\* handler's store calls follow a validated payload only
NextCart ==
  \/ UpdateQuantity
  \/ RemoveItem
  \/ ClearCart
  \/ Checkout
  \/ ReceiveCheckout
  \/ CheckoutAnswered
  \/ CheckoutFails

SpecCart == InitCartLoaded /\ [][NextCart]_vars

\* C29: the request body handleCheckout builds for a non-empty cart is
\* accepted by validateOrderPayload
C29_CartBodyAccepted ==
  checkout.state = "fetching" => validateOrderPayload(checkout.body).ok

\* a checkout that was answered left the cart as it was unless the answer
\* was ok
C29_FailedCheckoutKeepsCart ==
  [][( /\ checkout.state = "fetching" /\ checkout'.state = "idle"
       /\ cartMessage'.type = "error" )
     => cart' = cart]_vars

\* a cart whose checkout the server has answered with an ok status
C29_OrderPlaced ==
  checkout.state = "fetching" /\ pc[checkout.r] = "done" /\ IsOk(resp[checkout.r])

(* ------------------ POST /products on the file store ------------------ *)

\* JSON.stringify then JSON.parse of a number or null: NaN and Infinity
\* come back as null
JsonValue(x) == IF x.t \in {"nan", "inf"} THEN Null ELSE x

\* a product as it comes back from the file
StoredProduct(p) ==
  [id |-> p.id, name |-> p.name, price |-> JsonValue(p.price),
   stock |-> JsonValue(p.stock)]

\* the file holding the list ps
FileOf(ps) == [exists |-> TRUE, products |-> ps]

\* the id crypto.randomUUID() gives the product of creator k
FileProductId(k) == "f" \o ToString(k)

\* the file at start: missing, empty, or holding an earlier product
InitFileStore ==
  /\ InitOrders /\ products = ProductRows(1)
  /\ InitUsers /\ InitCall /\ InitClient /\ InitCart
  /\ file \in { NoFile, FileOf(<<>>),
                FileOf(<<StoredProduct(NewProduct("f0", [name |-> Str("Desk"),
                                                          price |-> Num(9),
                                                          stock |-> Num(1)]))>>) }
  /\ fpc = [k \in Creators |-> "idle"]
  /\ fbody = [k \in Creators |-> Null]
  /\ fread = [k \in Creators |-> <<>>]
  /\ fresp = [k \in Creators |-> NoResult]

\* POST /products up to readProductsFromFile: the body is validated, the
\* product built, and no store client is found
FileReceive(k) ==
  /\ fpc[k] = "idle"
  /\ \E body \in ProductBodies :
       LET validation == validateProductPayload(body)
       IN IF ~validation.valid
          THEN /\ fresp' = [fresp EXCEPT ![k] =
                              [status |-> 400, errors |-> validation.errors]]
               /\ fpc' = [fpc EXCEPT ![k] = "done"]
               /\ UNCHANGED fbody
          ELSE /\ fbody' = [fbody EXCEPT ![k] =
                              NewProduct(FileProductId(k), validation.value)]
               /\ fpc' = [fpc EXCEPT ![k] = "access"]
               /\ UNCHANGED fresp
  /\ UNCHANGED <<file, fread>>
  /\ UNCHANGED <<ordervars, uservars, callvars, clientvars, cartvars>>

\* ensureDataFile: fs.access tells whether the file is there
FileAccess(k) ==
  /\ fpc[k] = "access"
  /\ fpc' = [fpc EXCEPT ![k] = IF file.exists THEN "read" ELSE "create"]
  /\ UNCHANGED <<file, fbody, fread, fresp>>
  /\ UNCHANGED <<ordervars, uservars, callvars, clientvars, cartvars>>

\* ensureDataFile: the file was not there, it is written as an empty list
FileCreate(k) ==
  /\ fpc[k] = "create"
  /\ file' = FileOf(<<>>)
  /\ fpc' = [fpc EXCEPT ![k] = "read"]
  /\ UNCHANGED <<fbody, fread, fresp>>
  /\ UNCHANGED <<ordervars, uservars, callvars, clientvars, cartvars>>

\* readProductsFromFile: fs.readFile and JSON.parse
FileRead(k) ==
  /\ fpc[k] = "read"
  /\ fread' = [fread EXCEPT ![k] = file.products]
  /\ fpc' = [fpc EXCEPT ![k] = "write"]
  /\ UNCHANGED <<file, fbody, fresp>>
  /\ UNCHANGED <<ordervars, uservars, callvars, clientvars, cartvars>>

\* products.unshift(newProduct), writeProductsToFile(products) and the
\* answer.  The file exists by now, so ensureDataFile finds it.
FileWrite(k) ==
  /\ fpc[k] = "write"
  /\ file' = FileOf(<<StoredProduct(fbody[k])>> \o fread[k])
  /\ fresp' = [fresp EXCEPT ![k] = [status |-> 201, data |-> fbody[k]]]
  /\ fpc' = [fpc EXCEPT ![k] = "done"]
  /\ UNCHANGED <<fbody, fread>>
  /\ UNCHANGED <<ordervars, uservars, callvars, clientvars, cartvars>>

NextFile ==
  \E k \in Creators :
    \/ FileReceive(k)
    \/ FileAccess(k)
    \/ FileCreate(k)
    \/ FileRead(k)
    \/ FileWrite(k)

SpecFile == InitFileStore /\ [][NextFile]_vars

\* the ids of the products in the file
StoredIds == {file.products[i].id : i \in 1..Len(file.products)}

\* C30: every product for which POST /products answered 201 is in the stored
\* product list
C30_CreatedIsStored ==
  \A k \in Creators : fresp[k].status = 201 => fbody[k].id \in StoredIds

\* a creation never removes a product from the stored list
C30_NothingDiscarded ==
  [][\A k \in Creators :
       fpc[k] \in {"create", "write"} /\ fpc'[k] # fpc[k]
         => \A i \in 1..Len(file.products) : file.products[i].id \in StoredIds']_vars

====
